---- MODULE Spec2Model ----
(***************************************************************************)
(* A model of crudis: the keyspace of src/database.rs (a HashMap of        *)
(* Arc<RwLock<Bucket>> behind one RwLock with upgradable reads), the       *)
(* dispatcher of src/main.rs and the reply values of src/resp.rs.          *)
(*                                                                         *)
(* Byte strings are sequences of one-character strings, so that parsing,   *)
(* formatting and lower-casing are computed and not assumed.  Integers     *)
(* are two's complement of IntBits bits (the program's i64/isize/usize     *)
(* have 64; TLC's integers have 32, so the width is scaled down and every  *)
(* wrap, overflow and cast is kept).                                       *)
(***************************************************************************)
EXTENDS Integers, Sequences, FiniteSets, TLC

\* ------------------------------------------------------------------ bounds

\* Width of i64, isize and usize in the model.
IntBits == 5

\* Threads of the concurrent keyspace specifications.
NThreads == 2

\* Calls one behaviour of the sequential specification makes.
MaxSeqCalls == 2

\* ------------------------------------------------------------ machine ints

RECURSIVE Pow2(_)
Pow2(n) == IF n = 0 THEN 1 ELSE 2 * Pow2(n - 1)

I64Max == Pow2(IntBits - 1) - 1
I64Min == 0 - Pow2(IntBits - 1)
USizeMax == Pow2(IntBits) - 1

InI64(x) == I64Min <= x /\ x <= I64Max

\* Two's complement wrap of a mathematical integer into i64 / isize.
WrapI64(x) == ((x - I64Min) % Pow2(IntBits)) + I64Min

\* `x as usize` for an isize x.
AsUSize(x) == x % Pow2(IntBits)

\* Wrap of a mathematical integer into usize.
WrapUSize(x) == x % Pow2(IntBits)

Min(a, b) == IF a <= b THEN a ELSE b
Max(a, b) == IF a >= b THEN a ELSE b

\* ---------------------------------------------------------------- strings

DigitChars == <<"0", "1", "2", "3", "4", "5", "6", "7", "8", "9">>

IsDigit(c) == \E d \in 1..10 : DigitChars[d] = c

DigitVal(c) == (CHOOSE d \in 1..10 : DigitChars[d] = c) - 1

\* format!("{}", n) for n >= 0: decimal digits, no leading zeros.
RECURSIVE FormatNat(_)
FormatNat(n) ==
    IF n < 10 THEN <<DigitChars[n + 1]>>
    ELSE Append(FormatNat(n \div 10), DigitChars[(n % 10) + 1])

\* format!("{}", i) for an i64.
FormatI64(i) == IF i < 0 THEN <<"-">> \o FormatNat(0 - i) ELSE FormatNat(i)

\* The digits of s as a natural number (s holds digits only).
RECURSIVE DigitsValue(_)
DigitsValue(s) ==
    IF s = <<>> THEN 0
    ELSE 10 * DigitsValue(SubSeq(s, 1, Len(s) - 1)) + DigitVal(s[Len(s)])

\* str::parse::<i64>(): an optional '+' or '-', then one or more digits
\* (leading zeros allowed); a value outside i64 is an error.
ParseI64(s) ==
    LET signed == s /= <<>> /\ s[1] \in {"+", "-"}
        digits == IF signed THEN Tail(s) ELSE s
        mag    == DigitsValue(digits)
        v      == IF signed /\ s[1] = "-" THEN 0 - mag ELSE mag
    IN  IF digits = <<>> \/ \E n \in 1..Len(digits) : ~IsDigit(digits[n])
        THEN [ok |-> FALSE, v |-> 0]
        ELSE IF InI64(v) THEN [ok |-> TRUE, v |-> v]
        ELSE [ok |-> FALSE, v |-> 0]

UpperChars == <<"A", "B", "C", "D", "E", "F", "G", "H", "I", "J", "K", "L", "M",
                "N", "O", "P", "Q", "R", "S", "T", "U", "V", "W", "X", "Y", "Z">>
LowerChars == <<"a", "b", "c", "d", "e", "f", "g", "h", "i", "j", "k", "l", "m",
                "n", "o", "p", "q", "r", "s", "t", "u", "v", "w", "x", "y", "z">>

LowerChar(c) ==
    IF \E n \in 1..26 : UpperChars[n] = c
    THEN LowerChars[CHOOSE n \in 1..26 : UpperChars[n] = c]
    ELSE c

\* String::to_lowercase() on ASCII text.
to_lowercase(s) == [n \in 1..Len(s) |-> LowerChar(s[n])]

\* ------------------------------------------------------------------ state

VARIABLES
    overflow_checks, \* the build panics on integer overflow (debug) or wraps (release)
    map,             \* Database.map: key -> cell (the HashMap's entries)
    cells,           \* the heap: cell -> Value, one entry per Value::new
    mapLock,         \* the RwLock around the HashMap
    cellLock,        \* the RwLock of each cell
    pc,              \* each thread's position
    cur,             \* the operation each thread is running
    bucket_ptr,      \* the cell handles a thread cloned out of the map
    response,        \* the reply a thread has written so far
    idx,             \* loop position of mget and del
    num_removed,     \* del's running count
    hist,            \* completed calls, in order of return
    calls,           \* calls started so far
    pre,             \* the keyspace as it was when a thread's call began
    lin,             \* the sequential executions consistent with the call history
    sent,            \* replies written to each connection's socket
    inbox,           \* the request each connection is handling
    buf,             \* client_loop's buffer of bytes read and not yet decoded
    start_idx,       \* client_loop's index from which it scans buf for a newline
    wire,            \* bytes the client has sent that the server has not read yet
    decoded,         \* the result of the parser's last run
    reserved,        \* the capacity serialize() reserved (serialized_len)
    requests,        \* the frames each client has sent, in order, and what they hold
    table,           \* a HashTable of hash_table.rs and the return of the last call on it
    plain            \* the plain map the HashTable is compared with

vars == <<overflow_checks, map, cells, mapLock, cellLock, pc, cur, bucket_ptr,
          response, idx, num_removed, hist, calls, pre, lin, sent, inbox,
          buf, start_idx, wire, decoded, reserved, requests, table, plain>>

\* ----------------------------------------------------------------- values

StringValue(s) == [type |-> "String", s |-> s, l |-> <<>>]
ListValue(l) == [type |-> "List", s |-> <<>>, l |-> l]

\* What a read that races with a write of the same cell may see.
TornValue == [type |-> "Torn", s |-> <<>>, l |-> <<>>]

\* ---------------------------------------------------------------- replies

SimpleString(text) ==
    [kind |-> "SimpleString", text |-> text, i |-> 0, b |-> <<>>, elems |-> <<>>]
Error(text) ==
    [kind |-> "Error", text |-> text, i |-> 0, b |-> <<>>, elems |-> <<>>]
ErrorFor(text, arg) ==
    [kind |-> "Error", text |-> text, i |-> 0, b |-> arg, elems |-> <<>>]
Integer(i) ==
    [kind |-> "Integer", text |-> "", i |-> i, b |-> <<>>, elems |-> <<>>]
BulkString(b) ==
    [kind |-> "BulkString", text |-> "", i |-> 0, b |-> b, elems |-> <<>>]
Nil == [kind |-> "Nil", text |-> "", i |-> 0, b |-> <<>>, elems |-> <<>>]
\* "*count\r\n" followed by the elements written after it.
Array(count, elems) ==
    [kind |-> "Array", text |-> "", i |-> count, b |-> <<>>, elems |-> elems]
\* Nothing written (the thread panicked before its reply).
NoReply == [kind |-> "None", text |-> "", i |-> 0, b |-> <<>>, elems |-> <<>>]
\* A reply read out of a cell that was being written.
TornReply == [kind |-> "Torn", text |-> "", i |-> 0, b |-> <<>>, elems |-> <<>>]

ok == SimpleString("OK")
wrongtype == Error("WRONGTYPE Operation against a key holding the wrong kind of value")
out_of_range == Error("ERR index out of range")
no_such_key == Error("ERR no such key")
not_an_integer == Error("ERR value is not an integer or out of range")

\* ------------------------------------------------- outcomes of a function

\* What a function does once it holds the cell: the cell's new value, the
\* reply, whether it panics instead of replying, whether it removes the key.
Outcome(value, reply) ==
    [value |-> value, reply |-> reply, panic |-> FALSE, remove |-> FALSE]
Panic(value) ==
    [value |-> value, reply |-> NoReply, panic |-> TRUE, remove |-> FALSE]
Remove(value, reply) ==
    [value |-> value, reply |-> reply, panic |-> FALSE, remove |-> TRUE]

\* What a function does when the key is absent: the reply, and the value of
\* the cell it inserts (insert = FALSE: none).
Absent(reply) ==
    [insert |-> FALSE, value |-> TornValue, reply |-> reply, panic |-> FALSE]
AbsentInsert(value, reply) ==
    [insert |-> TRUE, value |-> value, reply |-> reply, panic |-> FALSE]
AbsentPanic ==
    [insert |-> FALSE, value |-> TornValue, reply |-> NoReply, panic |-> TRUE]

\* ------------------------------------------------ src/database.rs: strings

\* Database::get, the key present (database.rs:84-90).
get_found(v) ==
    IF v.type = "String" THEN Outcome(v, BulkString(v.s)) ELSE Outcome(v, wrongtype)

\* Database::get, the key absent (database.rs:79-81).
get_absent == Absent(Nil)

\* Database::getset, the key present (database.rs:118-127): mem::swap.
getset_found(v, value) ==
    IF v.type = "String" THEN Outcome(StringValue(value), BulkString(v.s))
    ELSE Outcome(v, wrongtype)

\* Database::getset, the key absent (database.rs:105-113).
getset_absent(value) == AbsentInsert(StringValue(value), Nil)

\* A set that overwrites a String in place and leaves any other variant.
set_found_strings_only(v, value) ==
    IF v.type = "String" THEN Outcome(StringValue(value), ok) ELSE Outcome(v, ok)

\* Database::set, the key present (database.rs:189-196).
set_found(v, value) == Outcome(StringValue(value), ok)

\* Database::set, the key absent (database.rs:176-184).
set_absent(value) == AbsentInsert(StringValue(value), ok)

\* Database::setnx (database.rs:205-220): a present key is not looked into.
setnx_present == Integer(0)
setnx_absent(value) == AbsentInsert(StringValue(value), Integer(1))

\* An mget element that reports a cell of another variant as an error.
mget_elem_typed(present, v) ==
    IF ~present THEN Nil
    ELSE IF v.type = "String" THEN BulkString(v.s) ELSE wrongtype

\* One element of Database::mget's reply (database.rs:152-163).
mget_elem(present, v) ==
    IF present /\ v.type = "String" THEN BulkString(v.s) ELSE Nil

\* The closures of incrby and decrby (database.rs:70, 140): i64 arithmetic,
\* which panics on overflow in a build with overflow checks and wraps in one
\* without.
if_present(name, x, delta) ==
    LET r == IF name = "incrby" THEN x + delta ELSE x - delta
    IN  [v |-> WrapI64(r), overflow |-> ~InI64(r)]

if_absent(name, delta) ==
    LET r == IF name = "incrby" THEN delta ELSE 0 - delta
    IN  [v |-> WrapI64(r), overflow |-> ~InI64(r)]

\* Database::rmw_integer, the key present (database.rs:670-687).
rmw_integer_found(v, name, delta) ==
    IF v.type = "String" THEN
        LET parsed == ParseI64(v.s)
            r == if_present(name, parsed.v, delta)
        IN  IF ~parsed.ok THEN Outcome(v, not_an_integer)
            ELSE IF r.overflow /\ overflow_checks THEN Panic(v)
            ELSE Outcome(StringValue(FormatI64(r.v)), Integer(r.v))
    ELSE Outcome(v, wrongtype)

\* Database::rmw_integer, the key absent (database.rs:656-666).
rmw_integer_absent(name, delta) ==
    LET r == if_absent(name, delta)
    IN  IF r.overflow /\ overflow_checks THEN AbsentPanic
        ELSE AbsentInsert(StringValue(FormatI64(r.v)), Integer(r.v))

\* -------------------------------------------------- src/database.rs: lists

Reverse(l) == [n \in 1..Len(l) |-> l[Len(l) + 1 - n]]

\* An index taken as it is, a negative one left negative.
Offset_unnormalized(index, len) == index

\* `index + l.len() as isize` for a negative index (database.rs:237-241).
Offset(index, len) == IF index < 0 THEN index + len ELSE index

\* Database::lindex, the key present (database.rs:234-250).
lindex_found(v, index) ==
    IF v.type = "List" THEN
        LET offset == Offset(index, Len(v.l))
        IN  IF offset < 0 \/ AsUSize(offset) >= Len(v.l) THEN Outcome(v, Nil)
            ELSE Outcome(v, BulkString(v.l[AsUSize(offset) + 1]))
    ELSE Outcome(v, wrongtype)

lindex_absent == Absent(Nil)

\* Database::llen (database.rs:253-271).
llen_found(v) ==
    IF v.type = "List" THEN Outcome(v, Integer(Len(v.l))) ELSE Outcome(v, wrongtype)

llen_absent == Absent(Integer(0))

\* Database::lpop (database.rs:273-295).
lpop_found(v) ==
    IF v.type = "List" THEN
        IF v.l /= <<>> THEN Outcome(ListValue(Tail(v.l)), BulkString(Head(v.l)))
        ELSE Outcome(v, Nil)
    ELSE Outcome(v, wrongtype)

\* An lpop that replies an empty string, not nil, for an absent key.
lpop_absent_empty == Absent(BulkString(<<>>))

lpop_absent == Absent(Nil)

\* Database::rpop (database.rs:543-565).
rpop_found(v) ==
    IF v.type = "List" THEN
        IF v.l /= <<>>
        THEN Outcome(ListValue(SubSeq(v.l, 1, Len(v.l) - 1)), BulkString(v.l[Len(v.l)]))
        ELSE Outcome(v, Nil)
    ELSE Outcome(v, wrongtype)

rpop_absent == Absent(Nil)

\* An lpush that puts the value at the tail of the list.
lpush_found_at_tail(v, value) ==
    IF v.type = "List"
    THEN Outcome(ListValue(Append(v.l, value)), Integer(Len(v.l) + 1))
    ELSE Outcome(v, wrongtype)

\* Database::lpush (database.rs:297-334).
lpush_found(v, value) ==
    IF v.type = "List"
    THEN Outcome(ListValue(<<value>> \o v.l), Integer(Len(v.l) + 1))
    ELSE Outcome(v, wrongtype)

lpush_absent(value) == AbsentInsert(ListValue(<<value>>), Integer(1))

\* An rpush that does not look at the variant of the cell it found.
rpush_found_unchecked(v, value) ==
    Outcome(ListValue(Append(v.l, value)), Integer(Len(v.l) + 1))

\* Database::rpush (database.rs:567-604).
rpush_found(v, value) ==
    IF v.type = "List"
    THEN Outcome(ListValue(Append(v.l, value)), Integer(Len(v.l) + 1))
    ELSE Outcome(v, wrongtype)

rpush_absent(value) == AbsentInsert(ListValue(<<value>>), Integer(1))

\* The range of lrange and ltrim (database.rs:356-374, 511-531): the clamped
\* bounds in usize, whether the range is taken as empty, and numel =
\* stop_clamped + 1 - start_clamped with its overflow.
Range(len, start, stop) ==
    LET start_offset  == Offset(start, len)
        stop_offset   == Offset(stop, len)
        start_clamped == AsUSize(Max(0, start_offset))
        stop_clamped  == AsUSize(Min(len, stop_offset))
        plus_one      == stop_clamped + 1
        minus_start   == WrapUSize(plus_one) - start_clamped
    IN  [start_clamped |-> start_clamped,
         stop_clamped  |-> stop_clamped,
         empty    |-> start_clamped >= len \/ start_clamped > stop_clamped,
         numel    |-> WrapUSize(minus_start),
         overflow |-> plus_one > USizeMax \/ minus_start < 0]

\* l.iter().skip(n).take(m)
SkipTake(l, n, m) == SubSeq(l, n + 1, Min(Len(l), n + m))

\* Database::lrange, the key present (database.rs:353-386).
lrange_found(v, start, stop) ==
    IF v.type = "List" THEN
        LET r == Range(Len(v.l), start, stop)
        IN  IF r.empty THEN Outcome(v, Array(0, <<>>))
            ELSE IF r.overflow /\ overflow_checks THEN Panic(v)
            ELSE Outcome(v, Array(r.numel,
                     [n \in 1..Len(SkipTake(v.l, r.start_clamped, r.numel)) |->
                         BulkString(SkipTake(v.l, r.start_clamped, r.numel)[n])]))
    ELSE Outcome(v, wrongtype)

lrange_absent == Absent(Array(0, <<>>))

\* Database::ltrim, the key present (database.rs:508-540).  l.drain(numel..)
\* panics when numel exceeds the length left by l.drain(..start_clamped).
ltrim_found(v, start, stop) ==
    IF v.type = "List" THEN
        LET r == Range(Len(v.l), start, stop)
            front == SubSeq(v.l, r.start_clamped + 1, Len(v.l))
        IN  IF r.empty THEN Remove(v, ok)
            ELSE IF r.overflow /\ overflow_checks THEN Panic(v)
            ELSE IF r.numel > Len(front) THEN Panic(ListValue(front))
            ELSE Outcome(ListValue(SubSeq(front, 1, r.numel)), ok)
    ELSE Outcome(v, wrongtype)

ltrim_absent == Absent(ok)

\* The loop of lrem for count > 0 (database.rs:413-419), over what is left
\* of the list: the survivors and the number removed.
RECURSIVE LremScan(_, _, _, _)
LremScan(l, limit, value, removed) ==
    IF l = <<>> THEN [l |-> <<>>, removed |-> removed]
    ELSE IF removed < limit /\ Head(l) = value
         THEN LremScan(Tail(l), limit, value, removed + 1)
         ELSE LET rest == LremScan(Tail(l), limit, value, removed)
              IN  [l |-> <<Head(l)>> \o rest.l, removed |-> rest.removed]

\* l.retain(|e| e != value)
RECURSIVE Retain(_, _)
Retain(l, value) ==
    IF l = <<>> THEN <<>>
    ELSE IF Head(l) = value THEN Retain(Tail(l), value)
    ELSE <<Head(l)>> \o Retain(Tail(l), value)

\* Database::lrem, the key present (database.rs:406-452).  For count < 0 the
\* loop compares with -count, which overflows for isize::MIN; a panic in the
\* loop drops the Drain, which empties the list.
lrem_found(v, count, value) ==
    IF v.type = "List" THEN
        IF count > 0 THEN
            LET r == LremScan(v.l, count, value, 0)
            IN  Outcome(ListValue(r.l), Integer(r.removed))
        ELSE IF count < 0 THEN
            LET neg == 0 - count
                r == LremScan(Reverse(v.l), WrapI64(neg), value, 0)
            IN  IF ~InI64(neg) /\ overflow_checks /\ v.l /= <<>>
                THEN Panic(ListValue(<<>>))
                ELSE Outcome(ListValue(Reverse(r.l)), Integer(r.removed))
        ELSE Outcome(ListValue(Retain(v.l, value)),
                     Integer(Len(v.l) - Len(Retain(v.l, value))))
    ELSE Outcome(v, wrongtype)

lrem_absent == Absent(Integer(0))

\* Database::lset (database.rs:455-491).
lset_found(v, index, value) ==
    IF v.type = "List" THEN
        LET offset == Offset(index, Len(v.l))
        IN  IF offset < 0 \/ offset >= Len(v.l) THEN Outcome(v, out_of_range)
            ELSE Outcome(ListValue([v.l EXCEPT ![offset + 1] = value]), ok)
    ELSE Outcome(v, wrongtype)

lset_absent == Absent(no_such_key)

\* -------------------------------------------------------------- operations

\* A call of a Database function: its name and arguments (the ones the
\* function does not take are left at their defaults).
Op(name, key, value, i, j, keys) ==
    [name |-> name, key |-> key, value |-> value, i |-> i, j |-> j, keys |-> keys]

NoOp == Op("none", <<>>, <<>>, 0, 0, <<>>)

RmwNames == {"incr", "incrby", "decr", "decrby"}

\* incr and decr call incrby and decrby with 1 (database.rs:60-62, 130-132).
RmwClosure(name) == IF name \in {"incr", "incrby"} THEN "incrby" ELSE "decrby"
RmwDelta(op) == IF op.name \in {"incr", "decr"} THEN 1 ELSE op.i

\* How each function takes the map lock: self.map.read(),
\* self.map.upgradable_read() or self.map.write().
MapMode(name) ==
    CASE name \in {"get", "mget", "lindex", "llen", "lpop", "lrange", "lrem",
                   "lset", "rpop", "exists"} -> "read"
      [] name \in {"getset", "set", "setnx", "lpush", "rpush", "ltrim"}
                   \cup RmwNames -> "upgradable"
      [] name = "del" -> "write"

\* How each function takes the cell lock: bucket_ptr.read() or .write().
CellMode(name) ==
    IF name \in {"get", "mget", "lindex", "llen", "lrange"} THEN "read" ELSE "write"

\* What the function named by op does once it holds the cell with value v.
FoundOutcome(op, v) ==
    CASE op.name = "get"    -> get_found(v)
      [] op.name = "getset" -> getset_found(v, op.value)
      [] op.name = "set"    -> set_found(v, op.value)
      [] op.name \in RmwNames ->
             rmw_integer_found(v, RmwClosure(op.name), RmwDelta(op))
      [] op.name = "mget"   -> Outcome(v, mget_elem(TRUE, v))
      [] op.name = "lindex" -> lindex_found(v, op.i)
      [] op.name = "llen"   -> llen_found(v)
      [] op.name = "lpop"   -> lpop_found(v)
      [] op.name = "rpop"   -> rpop_found(v)
      [] op.name = "lpush"  -> lpush_found(v, op.value)
      [] op.name = "rpush"  -> rpush_found(v, op.value)
      [] op.name = "lrange" -> lrange_found(v, op.i, op.j)
      [] op.name = "ltrim"  -> ltrim_found(v, op.i, op.j)
      [] op.name = "lrem"   -> lrem_found(v, op.i, op.value)
      [] op.name = "lset"   -> lset_found(v, op.i, op.value)

\* What the function named by op does when the key is not in the map.
AbsentOutcome(op) ==
    CASE op.name = "get"    -> get_absent
      [] op.name = "getset" -> getset_absent(op.value)
      [] op.name = "set"    -> set_absent(op.value)
      [] op.name = "setnx"  -> setnx_absent(op.value)
      [] op.name \in RmwNames ->
             rmw_integer_absent(RmwClosure(op.name), RmwDelta(op))
      [] op.name = "lindex" -> lindex_absent
      [] op.name = "llen"   -> llen_absent
      [] op.name = "lpop"   -> lpop_absent
      [] op.name = "rpop"   -> rpop_absent
      [] op.name = "lpush"  -> lpush_absent(op.value)
      [] op.name = "rpush"  -> rpush_absent(op.value)
      [] op.name = "lrange" -> lrange_absent
      [] op.name = "ltrim"  -> ltrim_absent
      [] op.name = "lrem"   -> lrem_absent
      [] op.name = "lset"   -> lset_absent

\* ------------------------------------------------------------------ locks

NoThread == 0
NoCell == 0

Threads == 1..NThreads

\* parking_lot's RwLock: any number of shared readers beside at most one
\* upgradable reader, or one writer alone.
CanMapRead == mapLock.w = NoThread

\* An upgradable read that is granted beside another one, as a shared read is.
CanMapUpgradableRead_shared == mapLock.w = NoThread

CanMapUpgradableRead == mapLock.w = NoThread /\ mapLock.u = NoThread

\* A write lock that is granted while shared readers hold the lock.
CanMapWrite_beside_readers == mapLock.w = NoThread /\ mapLock.u = NoThread

\* A write lock that does not wait for the holder of the upgradable guard.
CanMapWrite_beside_upgradable == mapLock.w = NoThread /\ mapLock.r = {}

CanMapWrite == mapLock.w = NoThread /\ mapLock.u = NoThread /\ mapLock.r = {}

\* RwLockUpgradableReadGuard::upgrade: waits for the shared readers to go.
CanMapUpgrade == mapLock.w = NoThread /\ mapLock.r = {}

\* A read of the cell that does not wait for its writer.
CanCellRead_unlocked(c) == TRUE

CanCellRead(c) == cellLock[c].w = NoThread

\* A write of the cell that does not wait for its readers or its writer.
CanCellWrite_unlocked(c) == TRUE

CanCellWrite(c) == cellLock[c].w = NoThread /\ cellLock[c].r = {}

MapUnlocked(t) ==
    [r |-> mapLock.r \ {t},
     u |-> IF mapLock.u = t THEN NoThread ELSE mapLock.u,
     w |-> IF mapLock.w = t THEN NoThread ELSE mapLock.w]

CellUnlocked(t, c) ==
    [cellLock EXCEPT ![c] = [r |-> @.r \ {t},
                             w |-> IF @.w = t THEN NoThread ELSE @.w]]

\* The value a thread finds in a cell.  A read while another thread holds
\* the cell for writing is a data race on the UnsafeCell.
ReadCell(t, c) ==
    IF cellLock[c].w \notin {NoThread, t} THEN TornValue ELSE cells[c]

\* The keyspace as a map from key to value.
Keyspace == [k \in DOMAIN map |-> cells[map[k]]]

\* The map without key k (HashMap::remove).
MapRemove(m, k) == [x \in (DOMAIN m) \ {k} |-> m[x]]

\* The map with key k at cell c (VacantEntry::insert).
MapInsert(m, k, c) == [x \in (DOMAIN m) \cup {k} |-> IF x = k THEN c ELSE m[x]]

\* ------------------------------------------------- steps of a Database call

\* The function returns with this reply: every guard it holds is dropped.
Finish(t, reply) ==
    /\ response' = [response EXCEPT ![t] = reply]
    /\ pc' = [pc EXCEPT ![t] = "done"]

\* The thread unwinds from a panic: its guards are dropped (parking_lot
\* does not poison), nothing more is written.
Unwind(t) == pc' = [pc EXCEPT ![t] = "panicked"]

\* let map = self.map.read();
MapRead(t) ==
    /\ pc[t] = "map_lock"
    /\ MapMode(cur[t].name) = "read"
    /\ CanMapRead
    /\ mapLock' = [mapLock EXCEPT !.r = @ \cup {t}]
    /\ pc' = [pc EXCEPT ![t] = "lookup"]
    /\ UNCHANGED <<overflow_checks, map, cells, cellLock, cur, bucket_ptr, response,
                   idx, num_removed, hist, calls, pre, lin, sent, inbox,
                   buf, start_idx, wire, decoded, reserved, requests, table, plain>>

\* let map = self.map.upgradable_read();
MapUpgradableRead(t) ==
    /\ pc[t] = "map_lock"
    /\ MapMode(cur[t].name) = "upgradable"
    /\ CanMapUpgradableRead
    /\ mapLock' = [mapLock EXCEPT !.u = t]
    /\ pc' = [pc EXCEPT ![t] = "lookup"]
    /\ UNCHANGED <<overflow_checks, map, cells, cellLock, cur, bucket_ptr, response,
                   idx, num_removed, hist, calls, pre, lin, sent, inbox,
                   buf, start_idx, wire, decoded, reserved, requests, table, plain>>

\* let mut map = self.map.write();  (Database::del, database.rs:607)
\* pre[t] becomes the keyspace the call finds under its lock.
MapWrite(t) ==
    /\ pc[t] = "map_lock"
    /\ MapMode(cur[t].name) = "write"
    /\ CanMapWrite
    /\ mapLock' = [mapLock EXCEPT !.w = t]
    /\ pc' = [pc EXCEPT ![t] = "del_loop"]
    /\ idx' = [idx EXCEPT ![t] = 1]
    /\ num_removed' = [num_removed EXCEPT ![t] = 0]
    /\ pre' = [pre EXCEPT ![t] = Keyspace]
    /\ UNCHANGED <<overflow_checks, map, cells, cellLock, cur, bucket_ptr, response,
                   hist, calls, lin, sent, inbox,
                   buf, start_idx, wire, decoded, reserved, requests, table, plain>>

\* map.get(key) under the read or upgradable guard, and what follows from
\* it while the guard is still held.
Lookup(t) ==
    LET op == cur[t]
        present == op.key \in DOMAIN map
    IN
    /\ pc[t] = "lookup"
    /\ op.name /= "mget"
    /\ UNCHANGED <<overflow_checks, map, cells, cellLock, cur, idx, num_removed,
                   hist, calls, pre, lin, sent, inbox,
                   buf, start_idx, wire, decoded, reserved, requests, table, plain>>
    /\ CASE op.name = "exists" ->
              \* database.rs:617-625
              /\ Finish(t, Integer(IF present THEN 1 ELSE 0))
              /\ mapLock' = MapUnlocked(t)
              /\ UNCHANGED bucket_ptr
         [] op.name = "setnx" /\ present ->
              \* database.rs:207-209
              /\ Finish(t, setnx_present)
              /\ mapLock' = MapUnlocked(t)
              /\ UNCHANGED bucket_ptr
         [] op.name = "ltrim" /\ present ->
              \* database.rs:502-508: the upgradable guard lives on
              /\ bucket_ptr' = [bucket_ptr EXCEPT ![t] = <<map[op.key]>>]
              /\ pc' = [pc EXCEPT ![t] = "cell_lock"]
              /\ UNCHANGED <<mapLock, response>>
         [] op.name /= "exists" /\ op.name /= "ltrim" /\ ~(op.name = "setnx") /\ present ->
              \* v.clone(), and the guard is dropped at the end of the block
              /\ bucket_ptr' = [bucket_ptr EXCEPT ![t] = <<map[op.key]>>]
              /\ pc' = [pc EXCEPT ![t] = "cell_lock"]
              /\ mapLock' = MapUnlocked(t)
              /\ UNCHANGED response
         [] op.name /= "exists" /\ ~present /\ AbsentOutcome(op).insert ->
              \* RwLockUpgradableReadGuard::upgrade(map) comes next
              /\ pc' = [pc EXCEPT ![t] = "upgrade"]
              /\ UNCHANGED <<mapLock, bucket_ptr, response>>
         [] op.name /= "exists" /\ ~present /\ ~AbsentOutcome(op).insert ->
              /\ IF AbsentOutcome(op).panic
                 THEN Unwind(t) /\ UNCHANGED response
                 ELSE Finish(t, AbsentOutcome(op).reply)
              /\ mapLock' = MapUnlocked(t)
              /\ UNCHANGED bucket_ptr

\* Database::mget collects the handles of all its keys under one read guard
\* and writes the array header (database.rs:144-150).
MgetCollect(t) ==
    LET op == cur[t] IN
    /\ pc[t] = "lookup"
    /\ op.name = "mget"
    /\ bucket_ptr' = [bucket_ptr EXCEPT ![t] =
           [n \in 1..Len(op.keys) |->
               IF op.keys[n] \in DOMAIN map THEN map[op.keys[n]] ELSE NoCell]]
    /\ mapLock' = MapUnlocked(t)
    /\ response' = [response EXCEPT ![t] = Array(Len(op.keys), <<>>)]
    /\ idx' = [idx EXCEPT ![t] = 1]
    /\ pc' = [pc EXCEPT ![t] = "mget_loop"]
    /\ UNCHANGED <<overflow_checks, map, cells, cellLock, cur, num_removed,
                   hist, calls, pre, lin, sent, inbox,
                   buf, start_idx, wire, decoded, reserved, requests, table, plain>>

\* One turn of mget's loop for a key that was absent, or its end
\* (database.rs:152-166).
MgetNext(t) ==
    /\ pc[t] = "mget_loop"
    /\ IF idx[t] > Len(bucket_ptr[t])
       THEN /\ pc' = [pc EXCEPT ![t] = "done"]
            /\ UNCHANGED <<response, idx>>
       ELSE /\ bucket_ptr[t][idx[t]] = NoCell
            /\ response' = [response EXCEPT ![t] =
                   Array(@.i, Append(@.elems, mget_elem(FALSE, TornValue)))]
            /\ idx' = [idx EXCEPT ![t] = @ + 1]
            /\ UNCHANGED pc
    /\ UNCHANGED <<overflow_checks, map, cells, mapLock, cellLock, cur, bucket_ptr,
                   num_removed, hist, calls, pre, lin, sent, inbox,
                   buf, start_idx, wire, decoded, reserved, requests, table, plain>>

\* The cell the key names now, where it names one.
CurCell_by_key(t) ==
    IF cur[t].key \in DOMAIN map THEN map[cur[t].key] ELSE bucket_ptr[t][idx[t]]

\* The cell a thread is about to lock or holds.
CurCell(t) == bucket_ptr[t][idx[t]]

\* bucket_ptr.read() or bucket_ptr.write()
CellLock(t) ==
    /\ \/ pc[t] = "cell_lock"
       \/ pc[t] = "mget_loop" /\ idx[t] <= Len(bucket_ptr[t]) /\ CurCell(t) /= NoCell
    /\ IF CellMode(cur[t].name) = "read"
       THEN /\ CanCellRead(CurCell(t))
            /\ cellLock' = [cellLock EXCEPT ![CurCell(t)].r = @ \cup {t}]
       ELSE /\ CanCellWrite(CurCell(t))
            /\ cellLock' = [cellLock EXCEPT ![CurCell(t)].w = t]
    /\ pc' = [pc EXCEPT ![t] = "body"]
    /\ UNCHANGED <<overflow_checks, map, cells, mapLock, cur, bucket_ptr, response,
                   idx, num_removed, hist, calls, pre, lin, sent, inbox,
                   buf, start_idx, wire, decoded, reserved, requests, table, plain>>

\* The function's work on the cell it holds, up to its return.
Body(t) ==
    LET op == cur[t]
        c == CurCell(t)
        v == ReadCell(t, c)
        out == IF v.type = "Torn" THEN Outcome(cells[c], TornReply)
               ELSE FoundOutcome(op, v)
    IN
    /\ pc[t] = "body"
    /\ cells' = [cells EXCEPT ![c] = out.value]
    /\ UNCHANGED <<overflow_checks, map, cur, bucket_ptr, num_removed,
                   hist, calls, pre, lin, sent, inbox,
                   buf, start_idx, wire, decoded, reserved, requests, table, plain>>
    /\ CASE out.panic ->
              /\ Unwind(t)
              /\ cellLock' = CellUnlocked(t, c)
              /\ mapLock' = MapUnlocked(t)
              /\ UNCHANGED <<response, idx>>
         [] ~out.panic /\ out.remove ->
              \* database.rs:527: ltrim upgrades the map guard, the cell held
              /\ pc' = [pc EXCEPT ![t] = "ltrim_upgrade"]
              /\ UNCHANGED <<cellLock, mapLock, response, idx>>
         [] ~out.panic /\ ~out.remove /\ op.name = "mget" ->
              /\ response' = [response EXCEPT ![t] =
                     Array(@.i, Append(@.elems, out.reply))]
              /\ idx' = [idx EXCEPT ![t] = @ + 1]
              /\ pc' = [pc EXCEPT ![t] = "mget_loop"]
              /\ cellLock' = CellUnlocked(t, c)
              /\ UNCHANGED mapLock
         [] ~out.panic /\ ~out.remove /\ op.name /= "mget" ->
              /\ Finish(t, out.reply)
              /\ cellLock' = CellUnlocked(t, c)
              /\ mapLock' = MapUnlocked(t)
              /\ UNCHANGED idx

\* let mut map = RwLockUpgradableReadGuard::upgrade(map);
Upgrade(t) ==
    /\ pc[t] = "upgrade"
    /\ CanMapUpgrade
    /\ mapLock' = [mapLock EXCEPT !.u = NoThread, !.w = t]
    /\ pc' = [pc EXCEPT ![t] = "insert"]
    /\ UNCHANGED <<overflow_checks, map, cells, cellLock, cur, bucket_ptr, response,
                   idx, num_removed, hist, calls, pre, lin, sent, inbox,
                   buf, start_idx, wire, decoded, reserved, requests, table, plain>>

\* match map.entry(key): Occupied is unreachable!(), Vacant inserts a new
\* cell and returns.
Insert(t) ==
    LET op == cur[t]
        out == AbsentOutcome(op)
    IN
    /\ pc[t] = "insert"
    /\ mapLock' = MapUnlocked(t)
    /\ UNCHANGED <<overflow_checks, cur, bucket_ptr, idx, num_removed,
                   hist, calls, pre, lin, sent, inbox,
                   buf, start_idx, wire, decoded, reserved, requests, table, plain>>
    /\ IF op.key \in DOMAIN map \/ out.panic
       THEN /\ Unwind(t)
            /\ UNCHANGED <<map, cells, cellLock, response>>
       ELSE /\ cells' = Append(cells, out.value)
            /\ cellLock' = Append(cellLock, [r |-> {}, w |-> NoThread])
            /\ map' = MapInsert(map, op.key, Len(cells) + 1)
            /\ Finish(t, out.reply)

\* Database::ltrim, the range empty: the upgrade of the map guard
\* (database.rs:527), with the cell's write guard held.
LtrimUpgrade(t) ==
    /\ pc[t] = "ltrim_upgrade"
    /\ CanMapUpgrade
    /\ mapLock' = [mapLock EXCEPT !.u = NoThread, !.w = t]
    /\ pc' = [pc EXCEPT ![t] = "ltrim_remove"]
    /\ UNCHANGED <<overflow_checks, map, cells, cellLock, cur, bucket_ptr, response,
                   idx, num_removed, hist, calls, pre, lin, sent, inbox,
                   buf, start_idx, wire, decoded, reserved, requests, table, plain>>

\* writer.remove(key); then +OK (database.rs:529-537).
LtrimRemove(t) ==
    /\ pc[t] = "ltrim_remove"
    /\ map' = MapRemove(map, cur[t].key)
    /\ mapLock' = MapUnlocked(t)
    /\ cellLock' = CellUnlocked(t, CurCell(t))
    /\ Finish(t, ok)
    /\ UNCHANGED <<overflow_checks, cells, cur, bucket_ptr, idx, num_removed,
                   hist, calls, pre, lin, sent, inbox,
                   buf, start_idx, wire, decoded, reserved, requests, table, plain>>

\* One key of Database::del's iterator, or its end (database.rs:609-614).
DelStep(t) ==
    LET op == cur[t] IN
    /\ pc[t] = "del_loop"
    /\ UNCHANGED <<overflow_checks, cells, cellLock, cur, bucket_ptr,
                   hist, calls, pre, lin, sent, inbox,
                   buf, start_idx, wire, decoded, reserved, requests, table, plain>>
    /\ IF idx[t] > Len(op.keys)
       THEN /\ Finish(t, Integer(num_removed[t]))
            /\ mapLock' = MapUnlocked(t)
            /\ UNCHANGED <<map, idx, num_removed>>
       ELSE /\ map' = MapRemove(map, op.keys[idx[t]])
            /\ num_removed' = [num_removed EXCEPT ![t] =
                   IF op.keys[idx[t]] \in DOMAIN map THEN @ + 1 ELSE @]
            /\ idx' = [idx EXCEPT ![t] = @ + 1]
            /\ UNCHANGED <<mapLock, response, pc>>

\* The steps of a call of a function that inserts an absent key.
InsertingStep(t) ==
    \/ MapUpgradableRead(t)
    \/ Lookup(t)
    \/ Upgrade(t)
    \/ Insert(t)
    \/ CellLock(t)
    \/ Body(t)

\* The steps of a call of a function on one key.
Step(t) ==
    \/ MapRead(t)
    \/ InsertingStep(t)

\* ------------------------------------------------------- inputs and Init

K == <<"k">>
J == <<"j">>
A == <<"a">>
B == <<"b">>

\* Contents a key can have been given by earlier calls.
InitStrings == {A, <<"7">>, FormatI64(I64Max), FormatI64(I64Min)}
InitLists == {<<A>>, <<A, B>>, <<B, A, B>>}
InitValues == {StringValue(s) : s \in InitStrings} \cup {ListValue(l) : l \in InitLists}

\* A frame is what a client sends in one piece: its bytes, the message they
\* hold, and whether they hold the whole of it.
Frame(msg, bytes, whole) == [msg |-> msg, bytes |-> bytes, whole |-> whole]

\* The bytes of the frames from the n-th on.
RECURSIVE Bytes(_, _)
Bytes(frames, n) ==
    IF n > Len(frames) THEN <<>> ELSE frames[n].bytes \o Bytes(frames, n + 1)

\* No HashTable has been made, and there is nothing to compare it with.
NoReturn == [kind |-> "", b |-> FALSE, v |-> <<>>]
NoTable == [hasher |-> <<>>, buckets |-> <<>>, next_array |-> 0,
            ret |-> NoReturn, aborted |-> FALSE]
NoPlain == [map |-> <<>>, expected |-> NoReturn]

\* The state after Database::new() and the calls that gave the keys in ks
\* the values vs[k] (each key in a cell of its own, no call in progress),
\* every connection just accepted (main.rs:101-102), the client of
\* connection t having sent the frames frames[t], one after the other.
StartedWith(checks, ks, vs, frames, tbl, pl) ==
    LET order == CHOOSE f \in [1..Cardinality(ks) -> ks] :
                     \A k \in ks : \E n \in 1..Cardinality(ks) : f[n] = k
    IN
    /\ overflow_checks = checks
    /\ cells = [n \in 1..Cardinality(ks) |-> vs[order[n]]]
    /\ map = [k \in ks |-> CHOOSE n \in 1..Cardinality(ks) : order[n] = k]
    /\ mapLock = [r |-> {}, u |-> NoThread, w |-> NoThread]
    /\ cellLock = [n \in 1..Cardinality(ks) |-> [r |-> {}, w |-> NoThread]]
    /\ pc = [t \in Threads |-> "idle"]
    /\ cur = [t \in Threads |-> NoOp]
    /\ bucket_ptr = [t \in Threads |-> <<>>]
    /\ response = [t \in Threads |-> NoReply]
    /\ idx = [t \in Threads |-> 1]
    /\ num_removed = [t \in Threads |-> 0]
    /\ hist = <<>>
    /\ calls = 0
    /\ pre = [t \in Threads |-> <<>>]
    /\ sent = [t \in Threads |-> <<>>]
    /\ inbox = [t \in Threads |-> <<>>]
    /\ buf = [t \in Threads |-> <<>>]
    /\ start_idx = [t \in Threads |-> 0]
    /\ wire = [t \in Threads |-> Bytes(frames[t], 1)]
    /\ decoded = <<>>
    /\ reserved = 0
    /\ requests = frames
    /\ table = tbl
    /\ plain = pl

\* The server starts: it has no HashTable.
Started(checks, ks, vs, frames) == StartedWith(checks, ks, vs, frames, NoTable, NoPlain)

\* The same, no client having sent anything.
Fresh(checks, ks, vs) == Started(checks, ks, vs, [t \in Threads |-> <<>>])

\* A thread calls a Database function.
Begin(t, op) ==
    /\ pc[t] = "idle"
    /\ cur' = [cur EXCEPT ![t] = op]
    /\ pc' = [pc EXCEPT ![t] = "map_lock"]
    /\ pre' = [pre EXCEPT ![t] = Keyspace]
    /\ bucket_ptr' = [bucket_ptr EXCEPT ![t] = <<>>]
    /\ idx' = [idx EXCEPT ![t] = 1]
    /\ response' = [response EXCEPT ![t] = NoReply]
    /\ calls' = calls + 1
    /\ UNCHANGED <<overflow_checks, map, cells, mapLock, cellLock, num_removed,
                   hist, sent, inbox,
                   buf, start_idx, wire, decoded, reserved, requests, table, plain>>

Call(t, op) == Begin(t, op) /\ UNCHANGED lin

\* The function has returned: the call and its reply join the history.
End(t) ==
    /\ pc[t] = "done"
    /\ hist' = Append(hist, [t |-> t, op |-> cur[t], reply |-> response[t],
                             before |-> pre[t], after |-> Keyspace])
    /\ pc' = [pc EXCEPT ![t] = "idle"]
    /\ UNCHANGED <<overflow_checks, map, cells, mapLock, cellLock, cur, bucket_ptr,
                   response, idx, num_removed, calls, pre, sent, inbox,
                   buf, start_idx, wire, decoded, reserved, requests, table, plain>>

Return(t) == End(t) /\ UNCHANGED lin

\* ------------------------------------- the keyspace, one call at a time

RmwDeltas == {I64Min, I64Max}

\* The calls of the sequential specification, on key K (J is a bystander):
\* every function, with one or two choices of its arguments.
SeqOps ==
    {Op(n, K, <<>>, 0, 0, <<>>) :
        n \in {"get", "incr", "decr", "llen", "lpop", "rpop", "exists", "lindex"}}
    \cup {Op(n, K, B, 0, 0, <<>>) :
        n \in {"getset", "set", "setnx", "lpush", "rpush", "lrem", "lset"}}
    \cup {Op("set", K, <<"7">>, 0, 0, <<>>)}
    \cup {Op(n, K, <<>>, d, 0, <<>>) : n \in {"incrby", "decrby"}, d \in RmwDeltas}
    \cup {Op("lrange", K, <<>>, 0, -1, <<>>)}
    \cup {Op("ltrim", K, <<>>, i, 0, <<>>) : i \in {0, 1}}
    \cup {Op("mget", <<>>, <<>>, 0, 0, <<K, J>>)}
    \cup {Op("del", <<>>, <<>>, 0, 0, ks) : ks \in {<<K>>, <<J, K, K>>}}

InitSeq ==
    \E checks \in BOOLEAN, ks \in SUBSET {K, J} :
        \E vs \in [ks -> InitValues] :
            /\ J \in ks => vs[J] = StringValue(A)
            /\ Fresh(checks, ks, vs)
            /\ lin = {}

CallSeq == \E op \in SeqOps : calls < MaxSeqCalls /\ Call(1, op)

NextSeq ==
    \/ CallSeq
    \/ Step(1)
    \/ MgetCollect(1)
    \/ MgetNext(1)
    \/ MapWrite(1)
    \/ DelStep(1)
    \/ LtrimUpgrade(1)
    \/ LtrimRemove(1)
    \/ Return(1)

SpecSeq == InitSeq /\ [][NextSeq]_vars

\* ------------------------------------------------- claims: one call at a time

\* The calls of the history that address key k alone.
IsCallOn(h, k) == h.op.name \notin {"mget", "del"} /\ h.op.key = k

ListOpNames == {"lpush", "rpush", "lpop", "rpop", "llen", "lindex", "lrange",
                "lrem", "lset", "ltrim"}
StringOpNames == {"get", "getset"} \cup RmwNames

\* C1: Database::set(k, v) replies +OK whatever k held (nothing, a String,
\* a List), leaves k holding String(v), never panics, and a get(k) that
\* follows it directly replies BulkString(v).
C1_SetThenGet ==
    /\ \A n \in 1..Len(hist) :
          hist[n].op.name = "set" =>
            /\ hist[n].reply = ok
            /\ hist[n].op.key \in DOMAIN hist[n].after
            /\ hist[n].after[hist[n].op.key] = StringValue(hist[n].op.value)
            /\ \A x \in DOMAIN hist[n].after :
                  x /= hist[n].op.key =>
                      x \in DOMAIN hist[n].before /\ hist[n].after[x] = hist[n].before[x]
            /\ (n < Len(hist) /\ hist[n + 1].op.name = "get"
                  /\ hist[n + 1].op.key = hist[n].op.key)
               => hist[n + 1].reply = BulkString(hist[n].op.value)
    /\ \A t \in Threads : pc[t] = "panicked" => cur[t].name /= "set"

\* C1, witness: a set over a List, then a get that replies the value set.
C1_Witness ==
    /\ Len(hist) = 2
    /\ hist[1].op.name = "set"
    /\ K \in DOMAIN hist[1].before
    /\ hist[1].before[K].type = "List"
    /\ hist[2].op.name = "get"
    /\ hist[2].reply = BulkString(hist[1].op.value)

\* The change INCR/DECR/INCRBY/DECRBY asks for, as a mathematical integer.
RmwChange(op) ==
    IF op.name \in {"incr", "incrby"} THEN RmwDelta(op) ELSE 0 - RmwDelta(op)

\* What C2 says of one completed integer read-modify-write.
RmwAsClaimed(h) ==
    LET k == h.op.key
        e == RmwChange(h.op)
    IN  IF k \notin DOMAIN h.before THEN
            /\ h.reply = Integer(e)
            /\ k \in DOMAIN h.after
            /\ h.after[k] = StringValue(FormatI64(e))
        ELSE IF h.before[k].type /= "String" THEN
            /\ h.reply = wrongtype
            /\ h.after = h.before
        ELSE IF ~ParseI64(h.before[k].s).ok THEN
            /\ h.reply = not_an_integer
            /\ h.after = h.before
        ELSE
            /\ h.reply = Integer(ParseI64(h.before[k].s).v + e)
            /\ InI64(h.reply.i)
            /\ h.after[k] = StringValue(FormatI64(ParseI64(h.before[k].s).v + e))

\* C2: every integer read-modify-write returns, and does what the claim
\* says for an absent key, a String that parses, a String that does not,
\* and a cell that is no String.
C2_RmwInteger ==
    /\ \A n \in 1..Len(hist) : hist[n].op.name \in RmwNames => RmwAsClaimed(hist[n])
    /\ \A t \in Threads : pc[t] = "panicked" => cur[t].name \notin RmwNames

\* The result the call asks for is a 64-bit signed integer.
RmwInRange(op, before) ==
    LET k == op.key
        e == RmwChange(op)
    IN  IF k \notin DOMAIN before THEN InI64(e)
        ELSE before[k].type = "String" /\ ParseI64(before[k].s).ok
                 => InI64(ParseI64(before[k].s).v + e)

\* C2 without its overflowing inputs: what the code does hold to.
C2_RmwWithinRange ==
    /\ \A n \in 1..Len(hist) :
          (hist[n].op.name \in RmwNames /\ RmwInRange(hist[n].op, hist[n].before))
              => RmwAsClaimed(hist[n])
    /\ \A t \in Threads :
          (pc[t] = "panicked" /\ cur[t].name \in RmwNames) => ~RmwInRange(cur[t], pre[t])

\* C10: a list function on a String cell, and a string function on a List
\* cell, reply WRONGTYPE and leave the whole keyspace as it was (so a get
\* that follows still replies the String); no such call panics; and after
\* del(k) replied 1 an rpush(k, x) replies 1 and k holds the list [x].
C10_WrongType ==
    /\ \A n \in 1..Len(hist) :
          LET h == hist[n] IN
          /\ (h.op.name \in ListOpNames \cup StringOpNames /\ h.op.key \in DOMAIN h.before
                /\ h.before[h.op.key].type =
                       (IF h.op.name \in ListOpNames THEN "String" ELSE "List"))
             => /\ h.reply = wrongtype
                /\ h.after = h.before
                /\ (n < Len(hist) /\ hist[n + 1].op.name = "get"
                      /\ hist[n + 1].op.key = h.op.key /\ h.before[h.op.key].type = "String")
                   => hist[n + 1].reply = BulkString(h.before[h.op.key].s)
          /\ (h.op.name = "del" /\ h.reply = Integer(1) /\ n < Len(hist)
                /\ hist[n + 1].op.name = "rpush"
                /\ \E m \in 1..Len(h.op.keys) : h.op.keys[m] = hist[n + 1].op.key)
             => /\ hist[n + 1].reply = Integer(1)
                /\ hist[n + 1].after[hist[n + 1].op.key] = ListValue(<<hist[n + 1].op.value>>)
    /\ \A t \in Threads :
          (pc[t] = "panicked" /\ cur[t].name \in ListOpNames \cup StringOpNames
             /\ cur[t].key \in DOMAIN pre[t])
          => pre[t][cur[t].key].type =
                 (IF cur[t].name \in ListOpNames THEN "List" ELSE "String")

\* C10, witness: an rpush on a String replied WRONGTYPE and the get after
\* it replied the String.
C10_Witness ==
    /\ Len(hist) = 2
    /\ hist[1].op.name = "rpush"
    /\ hist[1].reply = wrongtype
    /\ hist[2].op.name = "get"
    /\ hist[2].reply = BulkString(hist[1].before[K].s)

\* ------------------------------------------- concurrent INCR on one key

\* INCRs each thread performs.
IncrPerThread == 2

\* Calls of thread t that have returned.
Returned(t) == Cardinality({n \in 1..Len(hist) : hist[n].t = t})

InitIncr == \E checks \in BOOLEAN : Fresh(checks, {}, <<>>) /\ lin = {}

CallIncr(t) ==
    /\ Returned(t) < IncrPerThread
    /\ Call(t, Op("incr", K, <<>>, 0, 0, <<>>))

NextIncr == \E t \in Threads : CallIncr(t) \/ InsertingStep(t) \/ Return(t)

SpecIncr == InitIncr /\ [][NextIncr]_vars

IncrAllDone == \A t \in Threads : pc[t] = "idle" /\ Returned(t) = IncrPerThread

\* C3: with NThreads threads each calling incr(K) IncrPerThread times from
\* K absent, no call panics, the calls can always go on until all have
\* returned, and then K holds the decimal of NThreads * IncrPerThread.
C3_NoLostIncrement ==
    /\ \A t \in Threads : pc[t] /= "panicked"
    /\ IncrAllDone \/ ENABLED NextIncr
    /\ IncrAllDone =>
          /\ K \in DOMAIN map
          /\ cells[map[K]] = StringValue(FormatI64(NThreads * IncrPerThread))

\* C3, witness: all the increments have returned, the first inserts having
\* raced (the first two calls to return came from different threads and
\* both began with K absent).
C3_Witness ==
    /\ IncrAllDone
    /\ hist[1].t /= hist[2].t
    /\ K \notin DOMAIN hist[1].before
    /\ K \notin DOMAIN hist[2].before

\* -------------------------------------- concurrent SET and GET on one key

\* Calls one behaviour of the SET/GET specification makes.
MaxSetGetCalls == 3

SetGetOps ==
    {Op("get", K, <<>>, 0, 0, <<>>)} \cup {Op("set", K, v, 0, 0, <<>>) : v \in {A, B}}

InitSetGet ==
    \E checks \in BOOLEAN, ks \in SUBSET {K} :
        Fresh(checks, ks, [k \in ks |-> StringValue(<<"7">>)]) /\ lin = {}

CallSetGet(t) == \E op \in SetGetOps : calls < MaxSetGetCalls /\ Call(t, op)

NextSetGet == \E t \in Threads : CallSetGet(t) \/ Step(t) \/ Return(t)

SpecSetGet == InitSetGet /\ [][NextSetGet]_vars

\* The values some SET has been called with so far.
ValuesSet ==
    {hist[n].op.value : n \in {m \in 1..Len(hist) : hist[m].op.name = "set"}}
    \cup {cur[u].value : u \in {x \in Threads : pc[x] /= "idle" /\ cur[x].name = "set"}}

\* C4: a GET that is about to return replies Nil only if the key was absent
\* when the GET began, and otherwise one whole value: the one the key held
\* when the GET began or one a SET was called with; never a value read
\* while it was being written.
C4_NoTornGet ==
    \A t \in Threads :
        (pc[t] = "done" /\ cur[t].name = "get") =>
            \/ response[t] = Nil /\ K \notin DOMAIN pre[t]
            \/ /\ response[t].kind = "BulkString"
               /\ \/ K \in DOMAIN pre[t] /\ response[t].b = pre[t][K].s
                  \/ response[t].b \in ValuesSet

\* C4, witness: a GET returns the value of a SET that began after it and
\* has not returned yet (the GET read the cell between the SET's write and
\* its return).
C4_Witness ==
    \E t \in Threads, u \in Threads :
        /\ pc[t] = "done" /\ cur[t].name = "get"
        /\ pc[u] = "done" /\ cur[u].name = "set"
        /\ response[t] = BulkString(cur[u].value)
        /\ K \in DOMAIN pre[t]
        /\ pre[t][K].s /= cur[u].value

\* ----------------------------------------- linearizability on one key

\* Calls one behaviour of the linearizability specification makes.
MaxLinCalls == 3

\* A call that has not taken effect yet, and no call.
LinPending == [kind |-> "Pending", text |-> "", i |-> 0, b |-> <<>>, elems |-> <<>>]
LinIdle == [kind |-> "Idle", text |-> "", i |-> 0, b |-> <<>>, elems |-> <<>>]

\* The function named by op run alone, from call to return, on keyspace ks:
\* the keyspace it leaves and its reply (NoReply: it panics).
SeqExec(op, ks) ==
    CASE op.name = "exists" ->
            [ks |-> ks, reply |-> Integer(IF op.key \in DOMAIN ks THEN 1 ELSE 0)]
      [] op.name = "del" ->
            [ks |-> [k \in (DOMAIN ks) \ {op.keys[n] : n \in 1..Len(op.keys)} |-> ks[k]],
             reply |-> Integer(Cardinality(
                 (DOMAIN ks) \cap {op.keys[n] : n \in 1..Len(op.keys)}))]
      [] op.name = "mget" ->
            [ks |-> ks,
             reply |-> Array(Len(op.keys),
                 [n \in 1..Len(op.keys) |->
                     IF op.keys[n] \in DOMAIN ks
                     THEN mget_elem(TRUE, ks[op.keys[n]])
                     ELSE mget_elem(FALSE, TornValue)])]
      [] op.name = "setnx" /\ op.key \in DOMAIN ks ->
            [ks |-> ks, reply |-> setnx_present]
      [] op.name \notin {"exists", "del", "mget"} /\ op.key \notin DOMAIN ks ->
            LET out == AbsentOutcome(op)
            IN  [ks |-> IF out.insert /\ ~out.panic
                        THEN MapInsert(ks, op.key, out.value) ELSE ks,
                 reply |-> out.reply]
      [] op.name \notin {"exists", "del", "mget", "setnx"} /\ op.key \in DOMAIN ks ->
            LET out == FoundOutcome(op, ks[op.key])
            IN  [ks |-> IF out.remove THEN MapRemove(ks, op.key)
                        ELSE [ks EXCEPT ![op.key] = out.value],
                 reply |-> out.reply]

\* The configurations reached from c by letting one pending call take effect.
LinStep(c, ops) ==
    {[ks |-> SeqExec(ops[t], c.ks).ks,
      st |-> [c.st EXCEPT ![t] = SeqExec(ops[t], c.ks).reply]] :
        t \in {u \in Threads : c.st[u] = LinPending}}

RECURSIVE LinClosure(_, _)
LinClosure(S, ops) ==
    LET N == S \cup UNION {LinStep(c, ops) : c \in S}
    IN  IF N = S THEN S ELSE LinClosure(N, ops)

\* The calls of the linearizability specification, all on key K: one or more
\* functions of each locking protocol (lookup under a shared or an upgradable
\* map lock, cell read or written, insertion, removal).
LinOps ==
    {Op(n, K, <<>>, 0, 0, <<>>) :
        n \in {"get", "incr", "llen", "lpop", "exists", "lindex"}}
    \cup {Op(n, K, B, 0, 0, <<>>) :
        n \in {"getset", "set", "setnx", "rpush", "lset"}}
    \cup {Op("lrange", K, <<>>, 0, -1, <<>>)}
    \cup {Op("ltrim", K, <<>>, 1, s, <<>>) : s \in {0, 2}}
    \cup {Op("del", <<>>, <<>>, 0, 0, <<K>>)}

InitLin ==
    \E checks \in BOOLEAN, ks \in SUBSET {K} :
        \E vs \in [ks -> {StringValue(<<"7">>), ListValue(<<A, B>>)}] :
            /\ Fresh(checks, ks, vs)
            /\ lin = {[ks |-> vs, st |-> [t \in Threads |-> LinIdle]]}

\* A call begins: it is pending in every configuration, and may take
\* effect at once or later.  Threads being interchangeable, only thread 1
\* makes more than one call.
CallLin(t) ==
    \E op \in LinOps :
        /\ calls < MaxLinCalls
        /\ t > 1 => Returned(t) = 0
        /\ Begin(t, op)
        /\ lin' = LinClosure({[c EXCEPT !.st[t] = LinPending] : c \in lin},
                             [cur EXCEPT ![t] = op])

\* A call returns: the configurations in which it took effect with another
\* reply are ruled out.
ReturnLin(t) ==
    /\ End(t)
    /\ lin' = {[c EXCEPT !.st[t] = LinIdle] : c \in {x \in lin : x.st[t] = response[t]}}

\* A call ends in a panic, which kills the connection's thread.
AbortLin(t) ==
    /\ pc[t] = "panicked"
    /\ pc' = [pc EXCEPT ![t] = "dead"]
    /\ lin' = {[c EXCEPT !.st[t] = LinIdle] : c \in {x \in lin : x.st[t] = NoReply}}
    /\ UNCHANGED <<overflow_checks, map, cells, mapLock, cellLock, cur, bucket_ptr,
                   response, idx, num_removed, hist, calls, pre, sent, inbox,
                   buf, start_idx, wire, decoded, reserved, requests, table, plain>>

NextLin ==
    \E t \in Threads :
        \/ CallLin(t)
        \/ Step(t)
        \/ MapWrite(t)
        \/ DelStep(t)
        \/ LtrimUpgrade(t)
        \/ LtrimRemove(t)
        \/ ReturnLin(t)
        \/ AbortLin(t)

SpecLin == InitLin /\ [][NextLin]_vars

\* C5: whatever calls on key K have returned or panicked so far, with their
\* replies, some sequential execution of the calls made, in an order that
\* keeps every call between its beginning and its end, gives the same
\* replies.
C5_Linearizable == lin /= {}

\* ------------------------------------------------- DEL of several keys

\* Calls one behaviour of the DEL specification makes.
MaxDelCalls == 3

KJ == <<K, J>>

\* The keys a call of del or mget names.
Named(op) == {op.keys[n] : n \in 1..Len(op.keys)}

\* DEL of two keys and of one key named twice, the calls that observe the
\* mapping, and a SET that re-creates a key.  Every cell holds the same
\* string, so that a reply tells which keys the call found in the mapping
\* and nothing about when mget read each cell.
DelOps ==
    {Op("del", <<>>, <<>>, 0, 0, ks) : ks \in {KJ, <<K, K>>}}
    \cup {Op("mget", <<>>, <<>>, 0, 0, KJ)}
    \cup {Op("exists", k, <<>>, 0, 0, <<>>) : k \in {K, J}}
    \cup {Op("set", J, A, 0, 0, <<>>)}

InitDel ==
    \E checks \in BOOLEAN, ks \in SUBSET {K, J} :
        /\ Fresh(checks, ks, [k \in ks |-> StringValue(A)])
        /\ lin = {[ks |-> [k \in ks |-> StringValue(A)],
                   st |-> [t \in Threads |-> LinIdle]]}

CallDel(t) ==
    \E op \in DelOps :
        /\ calls < MaxDelCalls
        /\ Begin(t, op)
        /\ lin' = LinClosure({[c EXCEPT !.st[t] = LinPending] : c \in lin},
                             [cur EXCEPT ![t] = op])

NextDel ==
    \E t \in Threads :
        \/ CallDel(t)
        \/ Step(t)
        \/ MgetCollect(t)
        \/ MgetNext(t)
        \/ MapWrite(t)
        \/ DelStep(t)
        \/ ReturnLin(t)

SpecDel == InitDel /\ [][NextDel]_vars

\* C6: del works under one exclusive lock on the mapping; when its loop
\* ends every key it names is absent and its count is the number of distinct
\* named keys that were present when it got the lock, which is its reply;
\* and the replies of DEL, MGET, EXISTS and SET are those of a sequential
\* execution in which each DEL removes its keys in one step, so that no call
\* sees only some of them removed and a call that begins after DEL's return
\* finds each of them absent unless a SET re-created it.
C6_DelAtomic ==
    /\ lin /= {}
    /\ \A t \in Threads :
          /\ pc[t] = "del_loop" =>
                /\ mapLock = [r |-> {}, w |-> t, u |-> NoThread]
                /\ idx[t] > Len(cur[t].keys) =>
                      /\ Named(cur[t]) \cap DOMAIN map = {}
                      /\ num_removed[t] = Cardinality(Named(cur[t]) \cap DOMAIN pre[t])
          /\ (pc[t] = "done" /\ cur[t].name = "del") =>
                response[t] = Integer(Cardinality(Named(cur[t]) \cap DOMAIN pre[t]))

\* C6, witness: a DEL of K and J that found both has returned 2, and an MGET
\* of K and J that was called while both were present, and had not returned
\* when the DEL was called, replies two nils.
C6_Witness ==
    \E t, u \in Threads :
        /\ pc[t] = "done" /\ cur[t] = Op("mget", <<>>, <<>>, 0, 0, KJ)
        /\ DOMAIN pre[t] = {K, J}
        /\ response[t] = Array(2, <<Nil, Nil>>)
        /\ \E n \in 1..Len(hist) :
              /\ hist[n].t = u
              /\ hist[n].op = Op("del", <<>>, <<>>, 0, 0, KJ)
              /\ hist[n].reply = Integer(2)
              /\ DOMAIN hist[n].before = {K, J}

\* -------------------------------------------------------- the dispatcher

\* get_command's table (main.rs:211-234): the command as it is matched, the
\* Database function its handler calls, and its arity (-1: any).
CommandTable ==
    {[command |-> <<"d","e","c","r">>,         name |-> "decr",   arity |-> 1],
     [command |-> <<"d","e","c","r","b","y">>, name |-> "decrby", arity |-> 2],
     [command |-> <<"g","e","t">>,             name |-> "get",    arity |-> 1],
     [command |-> <<"g","e","t","s","e","t">>, name |-> "getset", arity |-> 2],
     [command |-> <<"i","n","c","r">>,         name |-> "incr",   arity |-> 1],
     [command |-> <<"i","n","c","r","b","y">>, name |-> "incrby", arity |-> 2],
     [command |-> <<"m","g","e","t">>,         name |-> "mget",   arity |-> -1],
     [command |-> <<"s","e","t">>,             name |-> "set",    arity |-> 2],
     [command |-> <<"s","e","t","n","x">>,     name |-> "setnx",  arity |-> 2],
     [command |-> <<"l","i","n","d","e","x">>, name |-> "lindex", arity |-> 2],
     [command |-> <<"l","l","e","n">>,         name |-> "llen",   arity |-> 1],
     [command |-> <<"l","p","o","p">>,         name |-> "lpop",   arity |-> 1],
     [command |-> <<"l","p","u","s","h">>,     name |-> "lpush",  arity |-> 2],
     [command |-> <<"l","r","a","n","g","e">>, name |-> "lrange", arity |-> 3],
     [command |-> <<"l","r","e","m">>,         name |-> "lrem",   arity |-> 3],
     [command |-> <<"l","s","e","t">>,         name |-> "lset",   arity |-> 3],
     [command |-> <<"l","t","r","i","m">>,     name |-> "ltrim",  arity |-> 3],
     [command |-> <<"r","p","o","p">>,         name |-> "rpop",   arity |-> 1],
     [command |-> <<"r","p","u","s","h">>,     name |-> "rpush",  arity |-> 2],
     [command |-> <<"d","e","l">>,             name |-> "del",    arity |-> -1],
     [command |-> <<"e","x","i","s","t","s">>, name |-> "exists", arity |-> 1],
     [command |-> <<"p","i","n","g">>,         name |-> "ping",   arity |-> 0]}

\* Some((arity, f)) or None.
get_command(command) == {e \in CommandTable : e.command = command}

\* What a handler does: it calls a Database function, or writes a reply
\* itself.
Invoke(op) == [call |-> TRUE, op |-> op, reply |-> NoReply]
Write(reply) == [call |-> FALSE, op |-> NoOp, reply |-> reply]

\* A handler that parses one integer argument, and one that parses two in
\* turn, before its call.
Parsed1(s, op) ==
    IF ParseI64(s).ok THEN Invoke(op) ELSE Write(not_an_integer)
Parsed2(s1, s2, op) ==
    IF ParseI64(s1).ok /\ ParseI64(s2).ok THEN Invoke(op) ELSE Write(not_an_integer)

\* The handlers (main.rs:238-444).  args is the whole message: args[1] here
\* is args[0] there, the command as the client typed it.
Handle(name, args) ==
    CASE name = "decr"   -> Invoke(Op("decr", args[2], <<>>, 0, 0, <<>>))
      [] name = "decrby" ->
            Parsed1(args[3], Op("decrby", args[2], <<>>, ParseI64(args[3]).v, 0, <<>>))
      [] name = "get"    -> Invoke(Op("get", args[2], <<>>, 0, 0, <<>>))
      [] name = "getset" -> Invoke(Op("getset", args[1], args[2], 0, 0, <<>>))
      [] name = "incr"   -> Invoke(Op("incr", args[1], <<>>, 0, 0, <<>>))
      [] name = "incrby" ->
            Parsed1(args[2], Op("incrby", args[1], <<>>, ParseI64(args[2]).v, 0, <<>>))
      [] name = "mget"   ->
            Invoke(Op("mget", <<>>, <<>>, 0, 0, SubSeq(args, 2, Len(args))))
      [] name = "set"    -> Invoke(Op("set", args[2], args[3], 0, 0, <<>>))
      [] name = "setnx"  -> Invoke(Op("setnx", args[2], args[3], 0, 0, <<>>))
      [] name = "lindex" ->
            Parsed1(args[3], Op("lindex", args[2], <<>>, ParseI64(args[3]).v, 0, <<>>))
      [] name = "llen"   -> Invoke(Op("llen", args[2], <<>>, 0, 0, <<>>))
      [] name = "lpop"   -> Invoke(Op("lpop", args[2], <<>>, 0, 0, <<>>))
      [] name = "lpush"  -> Invoke(Op("lpush", args[2], args[3], 0, 0, <<>>))
      [] name = "lrange" ->
            Parsed2(args[2], args[3],
                    Op("lrange", args[2], <<>>,
                       ParseI64(args[2]).v, ParseI64(args[3]).v, <<>>))
      [] name = "lrem"   ->
            Parsed1(args[3], Op("lrem", args[2], args[4], ParseI64(args[3]).v, 0, <<>>))
      [] name = "lset"   ->
            Parsed1(args[3], Op("lset", args[2], args[4], ParseI64(args[3]).v, 0, <<>>))
      [] name = "ltrim"  ->
            Parsed2(args[3], args[4],
                    Op("ltrim", args[2], <<>>,
                       ParseI64(args[3]).v, ParseI64(args[4]).v, <<>>))
      [] name = "rpop"   -> Invoke(Op("rpop", args[2], <<>>, 0, 0, <<>>))
      [] name = "rpush"  -> Invoke(Op("rpush", args[2], args[3], 0, 0, <<>>))
      [] name = "del"    -> Invoke(Op("del", <<>>, <<>>, 0, 0, args))
      [] name = "exists" -> Invoke(Op("exists", args[1], <<>>, 0, 0, <<>>))
      [] name = "ping"   -> Write(SimpleString("PONG"))

\* The grave accent (U+0060), standing for the one-character string.
Grave == "grave"

\* impl Display for Command: the name and every argument between grave
\* accents.
RECURSIVE Quoted(_)
Quoted(args) ==
    IF args = <<>> THEN <<>>
    ELSE <<Grave>> \o Head(args) \o <<Grave, ",", " ">> \o Quoted(Tail(args))

Command(msg) == <<Grave>> \o msg[1] \o <<Grave, ",">> \o Quoted(Tail(msg))

\* make_response, up to the handler's call of a Database function; panic:
\* the assertion fails.
make_response(msg) ==
    IF msg = <<>>
    THEN [panic |-> TRUE, call |-> FALSE, op |-> NoOp, reply |-> NoReply]
    ELSE LET command == to_lowercase(msg[1])
             found   == get_command(command)
             e       == CHOOSE x \in found : TRUE
             h       == IF found = {}
                        THEN Write(ErrorFor("ERR unknown command {} with args beginning with: {}",
                                            Command(msg)))
                        ELSE IF e.arity /= -1 /\ Len(msg) /= e.arity + 1
                        THEN Write(ErrorFor("ERR wrong number of arguments for '{}' command",
                                            command))
                        ELSE Handle(e.name, msg)
         IN  [panic |-> FALSE, call |-> h.call, op |-> h.op, reply |-> h.reply]

\* ---------------------------------------------------------- connections

\* client_loop calls make_response with a message it has decoded, which
\* runs up to the handler's call of a Database function (main.rs:108-109).
Dispatch(t, msg) ==
    LET r == make_response(msg) IN
    /\ pc[t] = "idle"
    /\ inbox' = [inbox EXCEPT ![t] = Append(@, msg)]
    /\ calls' = calls + 1
    /\ cur' = [cur EXCEPT ![t] = r.op]
    /\ pre' = [pre EXCEPT ![t] = Keyspace]
    /\ bucket_ptr' = [bucket_ptr EXCEPT ![t] = <<>>]
    /\ idx' = [idx EXCEPT ![t] = 1]
    /\ response' = [response EXCEPT ![t] = r.reply]
    /\ pc' = [pc EXCEPT ![t] = IF r.panic THEN "panicked"
                               ELSE IF r.call THEN "map_lock" ELSE "done"]
    /\ UNCHANGED <<overflow_checks, map, cells, mapLock, cellLock, num_removed,
                   hist, lin, sent, reserved, requests, table, plain>>

\* A connection whose bytes are not modelled has decoded a message.
Accept(t, msg) == Dispatch(t, msg) /\ UNCHANGED <<buf, start_idx, wire, decoded>>

\* socket.write_all(&response) (main.rs:111).
Respond(t) ==
    /\ pc[t] = "done"
    /\ sent' = [sent EXCEPT ![t] = Append(@, response[t])]
    /\ pc' = [pc EXCEPT ![t] = "idle"]
    /\ UNCHANGED <<overflow_checks, map, cells, mapLock, cellLock, cur, bucket_ptr,
                   response, idx, num_removed, hist, calls, pre, lin, inbox,
                   buf, start_idx, wire, decoded, reserved, requests, table, plain>>

\* Requests one behaviour of the server specification decodes.
MaxRequests == 2

\* A command as a client may type it, in capitals.
Typed(name) ==
    LET command == (CHOOSE e \in CommandTable : e.name = name).command
    IN  [n \in 1..Len(command) |->
            UpperChars[CHOOSE m \in 1..26 : LowerChars[m] = command[n]]]

\* The decoded messages of the server specification: every command of the
\* table with arguments about key K, a command with an argument missing, an
\* unknown command, and the empty message (a blank inline line, or an
\* array of no elements).
Requests ==
    {<<Typed(n), K>> : n \in {"decr", "get", "incr", "llen", "lpop", "rpop",
                               "exists", "del", "mget"}}
    \cup {<<Typed(n), K, <<"1">>>> : n \in {"decrby", "incrby", "lindex"}}
    \cup {<<Typed(n), K, A>> : n \in {"getset", "set", "setnx", "lpush", "rpush"}}
    \cup {<<Typed(n), K, <<"0">>, A>> : n \in {"lrem", "lset"}}
    \cup {<<Typed("lrange"), K, <<"0">>, <<"1">>>>}
    \cup {<<Typed("ltrim"), K, s, e>> : s \in {<<"1">>}, e \in {<<"0">>, <<"1">>}}
    \cup {<<Typed("ltrim"), K, <<"0">>, <<"1">>>>}
    \cup {<<Typed("ping")>>, <<Typed("get")>>, <<A>>, <<>>}

\* The server starts with an empty keyspace (main.rs: Database::new()).
InitServer ==
    \E checks \in BOOLEAN : Fresh(checks, {}, <<>>) /\ lin = {}

AcceptServer(t) ==
    \E msg \in Requests : calls < MaxRequests /\ Accept(t, msg)

NextServer ==
    \E t \in Threads :
        \/ AcceptServer(t)
        \/ Step(t)
        \/ MgetCollect(t)
        \/ MgetNext(t)
        \/ MapWrite(t)
        \/ DelStep(t)
        \/ LtrimUpgrade(t)
        \/ LtrimRemove(t)
        \/ Respond(t)

SpecServer == InitServer /\ [][NextServer]_vars


\* The last message a connection has decoded.
LastMsg(t) == inbox[t][Len(inbox[t])]

\* C7: a connection's thread never dies of a panic, and it has written
\* one reply for every message it has decoded, the one it is working on
\* excepted.
C7_OneReplyPerRequest ==
    \A t \in Threads :
        /\ pc[t] /= "panicked"
        /\ Len(sent[t]) = Len(inbox[t]) - (IF pc[t] = "idle" THEN 0 ELSE 1)

\* A message that names a command of the table and has the number of
\* arguments the table asks for.
WellFormed(msg) ==
    /\ msg /= <<>>
    /\ \E e \in get_command(to_lowercase(msg[1])) :
          e.arity = -1 \/ Len(msg) = e.arity + 1

\* The call the documentation of a command describes: the key is the first
\* argument after the name, the integers are the second (and third), the
\* value is what remains; no call when an integer does not parse, nor for
\* PING.
Documented(msg) ==
    LET name == (CHOOSE e \in get_command(to_lowercase(msg[1])) : TRUE).name
        int(n) == ParseI64(msg[n])
    IN  CASE name \in {"decr", "incr", "get", "llen", "lpop", "rpop", "exists"} ->
                Op(name, msg[2], <<>>, 0, 0, <<>>)
          [] name \in {"getset", "set", "setnx", "lpush", "rpush"} ->
                Op(name, msg[2], msg[3], 0, 0, <<>>)
          [] name \in {"decrby", "incrby", "lindex"} ->
                IF int(3).ok THEN Op(name, msg[2], <<>>, int(3).v, 0, <<>>) ELSE NoOp
          [] name \in {"lrange", "ltrim"} ->
                IF int(3).ok /\ int(4).ok
                THEN Op(name, msg[2], <<>>, int(3).v, int(4).v, <<>>) ELSE NoOp
          [] name \in {"lrem", "lset"} ->
                IF int(3).ok THEN Op(name, msg[2], msg[4], int(3).v, 0, <<>>) ELSE NoOp
          [] name \in {"mget", "del"} -> Op(name, <<>>, <<>>, 0, 0, Tail(msg))
          [] name = "ping" -> NoOp

\* C8: while a connection works on a well-formed message, the Database
\* call it has made is the documented one: the function of the command's
\* name on the arguments that follow the name, in order.
C8_ArgumentsInOrder ==
    \A t \in Threads :
        (pc[t] \notin {"idle", "panicked"} /\ inbox[t] /= <<>> /\ WellFormed(LastMsg(t)))
            => cur[t] = Documented(LastMsg(t))

\* ----------------------------------------------------- the counter scenario

\* Requests one behaviour of the scenario specification decodes.
MaxScenarioRequests == 5

Cnt == <<"c", "n", "t">>
Foo == <<"f", "o", "o">>

IncrCnt == <<Typed("incr"), Cnt>>
SetCntFoo == <<Typed("set"), Cnt, Foo>>
GetCnt == <<Typed("get"), Cnt>>

\* The scenario and the replies the documentation gives.
Scenario == <<IncrCnt, IncrCnt, SetCntFoo, IncrCnt, GetCnt>>
ScenarioReplies == <<Integer(1), Integer(2), ok, not_an_integer, BulkString(Foo)>>

\* The only connection of the scenario.
Conn == 1

AcceptScenario ==
    \E msg \in {IncrCnt, SetCntFoo, GetCnt} :
        calls < MaxScenarioRequests /\ Accept(Conn, msg)

NextScenario == AcceptScenario \/ Step(Conn) \/ Respond(Conn)

SpecScenario == InitServer /\ [][NextScenario]_vars

\* C9: as long as the connection's requests are those of the scenario, in
\* its order, from an empty keyspace, the replies are the documented ones:
\* 1, 2, OK, the not-an-integer error, foo.
C9_CounterScenario ==
    \A n \in 1..Len(sent[Conn]) :
        SubSeq(inbox[Conn], 1, n) = SubSeq(Scenario, 1, n)
            => sent[Conn][n] = ScenarioReplies[n]


\* ------------------------------------------------- the list functions alone

\* The longest list and the number of calls of the list specification.
MaxListLen == 3
MaxListCalls == 2

\* The lists of at most n elements among a and b.
Lists(n) == UNION {[1..m -> {A, B}] : m \in 0..n}

\* The integer arguments: every index around the lists' ends, and the
\* extremes of isize.
ListInts == ((0 - MaxListLen - 1)..(MaxListLen + 1)) \cup {I64Min, I64Max}

\* The calls of the list specification, on key K.
ListOps ==
    {Op(n, K, <<>>, 0, 0, <<>>) : n \in {"get", "exists", "llen", "lpop", "rpop"}}
    \cup {Op(n, K, v, 0, 0, <<>>) : n \in {"lpush", "rpush"}, v \in {A, B}}
    \cup {Op("lindex", K, <<>>, i, 0, <<>>) : i \in ListInts}
    \cup {Op(n, K, v, i, 0, <<>>) : n \in {"lrem", "lset"}, v \in {A, B}, i \in ListInts}
    \cup {Op(n, K, <<>>, i, j, <<>>) : n \in {"lrange", "ltrim"}, i \in ListInts, j \in ListInts}
    \cup {Op("del", <<>>, <<>>, 0, 0, <<K>>)}

\* K is absent or holds a list; J, a bystander, holds a string.
InitList ==
    \E checks \in BOOLEAN, ks \in {{J}, {J, K}}, l \in Lists(MaxListLen) :
        /\ Fresh(checks, ks, [k \in ks |-> IF k = J THEN StringValue(A) ELSE ListValue(l)])
        /\ lin = {}

\* A call; a push only while the list is shorter than MaxListLen.
CallList(t) ==
    \E op \in ListOps :
        /\ calls < MaxListCalls
        /\ (op.name \in {"lpush", "rpush"} /\ K \in DOMAIN map)
              => Len(cells[map[K]].l) < MaxListLen
        /\ Call(t, op)

\* The function has returned and its locals are gone; the history is not
\* kept.
Leave(t) ==
    /\ pc[t] = "done"
    /\ pc' = [pc EXCEPT ![t] = "idle"]
    /\ cur' = [cur EXCEPT ![t] = NoOp]
    /\ bucket_ptr' = [bucket_ptr EXCEPT ![t] = <<>>]
    /\ response' = [response EXCEPT ![t] = NoReply]
    /\ idx' = [idx EXCEPT ![t] = 1]
    /\ num_removed' = [num_removed EXCEPT ![t] = 0]
    /\ pre' = [pre EXCEPT ![t] = <<>>]
    /\ UNCHANGED <<overflow_checks, map, cells, mapLock, cellLock,
                   hist, calls, lin, sent, inbox,
                   buf, start_idx, wire, decoded, reserved, requests, table, plain>>

NextList ==
    \/ CallList(1)
    \/ Step(1)
    \/ MapWrite(1)
    \/ DelStep(1)
    \/ LtrimUpgrade(1)
    \/ LtrimRemove(1)
    \/ Leave(1)

SpecList == InitList /\ [][NextList]_vars


\* A call of the list specification that has ended, by a reply or a panic.
Ended(t, names) == pc[t] \in {"done", "panicked"} /\ cur[t].name \in names

\* C11: a call of get, exists, llen, lpop, rpop, lindex, lrem or del that
\* finds key K absent replies nil (get, lpop, rpop, lindex) or 0 (exists,
\* llen, lrem, del), and leaves the keyspace as it was: K is not created and
\* J is not changed.
C11_AbsentKey ==
    \A t \in Threads :
        ( /\ Ended(t, {"get", "exists", "llen", "lpop", "rpop", "lindex", "lrem", "del"})
          /\ K \notin DOMAIN pre[t] )
        => /\ pc[t] = "done"
           /\ response[t] = IF cur[t].name \in {"get", "lpop", "rpop", "lindex"}
                            THEN Nil ELSE Integer(0)
           /\ Keyspace = pre[t]

\* C11, witness: lrem with the least count has replied 0 for the absent K,
\* J being present.
C11_Witness ==
    \E t \in Threads :
        /\ pc[t] = "done" /\ cur[t].name = "lrem" /\ cur[t].i = I64Min
        /\ K \notin DOMAIN pre[t] /\ J \in DOMAIN map
        /\ response[t] = Integer(0)


\* The list a call found at K.
ListFound(t) == pre[t][K].l

\* A call of one of the named functions that has ended and found a list at K.
EndedOnList(t, names) ==
    Ended(t, names) /\ K \in DOMAIN pre[t] /\ pre[t][K].type = "List"

\* The documented range of lrange and ltrim on a list l: the elements at the
\* positions p, counted from 0, with max(0, s') <= p <= e' and p < Len(l),
\* where s' and e' are s and e with Len(l) added when negative.
Documented_slice(l, s, e) ==
    LET n  == Len(l)
        s1 == IF s < 0 THEN s + n ELSE s
        e1 == IF e < 0 THEN e + n ELSE e
    IN  SubSeq(l, Max(0, s1) + 1, Min(n - 1, e1) + 1)

\* C12: lrange on a list replies the array of the elements of the documented
\* range, in order, its count being their number, and leaves the keyspace
\* unchanged, for every start and stop.
C12_LrangeSlice ==
    \A t \in Threads :
        EndedOnList(t, {"lrange"}) =>
            LET s == Documented_slice(ListFound(t), cur[t].i, cur[t].j)
            IN  /\ pc[t] = "done"
                /\ response[t] = Array(Len(s), [n \in 1..Len(s) |-> BulkString(s[n])])
                /\ Keyspace = pre[t]

\* C13: in lrange and ltrim on a list of length len, start_clamped and
\* stop_clamped lie in 0..len, stop_clamped being the normalized stop
\* brought into 0..len, and when the range is not empty its element count
\* is computed without overflow and is at most len.
C13_ClampedRange ==
    \A t \in Threads :
        EndedOnList(t, {"lrange", "ltrim"}) =>
            LET len == Len(ListFound(t))
                r   == Range(len, cur[t].i, cur[t].j)
            IN  /\ r.start_clamped \in 0..len
                /\ r.stop_clamped = Max(0, Min(len, Offset(cur[t].j, len)))
                /\ ~r.empty => (~r.overflow /\ r.numel <= len)


\* C14: ltrim on a list, the documented range not empty, replies OK and
\* leaves at K the elements of that range in their order, and J as it was,
\* for every start and stop; it never ends in a panic.
C14_LtrimKeepsRange ==
    \A t \in Threads :
        ( /\ EndedOnList(t, {"ltrim"})
          /\ Documented_slice(ListFound(t), cur[t].i, cur[t].j) /= <<>> )
        => /\ pc[t] = "done"
           /\ response[t] = ok
           /\ Keyspace = [pre[t] EXCEPT ![K] =
                  ListValue(Documented_slice(ListFound(t), cur[t].i, cur[t].j))]

\* The documented test for an empty range on a list of length n: the
\* normalized start is at least n, or start is greater than stop once both
\* are brought into 0..n.
Documented_empty(n, s, e) ==
    LET s1 == IF s < 0 THEN s + n ELSE s
        e1 == IF e < 0 THEN e + n ELSE e
    IN  s1 >= n \/ Max(0, Min(n, s1)) > Max(0, Min(n, e1))

\* C15: ltrim on a list, the documented range empty, replies OK and removes
\* K from the mapping, J staying as it was; ltrim on an absent K replies OK
\* and leaves the keyspace as it was.
C15_LtrimRemovesKey ==
    \A t \in Threads :
        /\ ( /\ EndedOnList(t, {"ltrim"})
             /\ Documented_empty(Len(ListFound(t)), cur[t].i, cur[t].j) )
           => /\ pc[t] = "done"
              /\ response[t] = ok
              /\ Keyspace = [k \in (DOMAIN pre[t]) \ {K} |-> pre[t][k]]
        /\ (Ended(t, {"ltrim"}) /\ K \notin DOMAIN pre[t])
           => (pc[t] = "done" /\ response[t] = ok /\ Keyspace = pre[t])


\* The list l without its first k elements equal to v, the others in order.
RECURSIVE WithoutFirst(_, _, _)
WithoutFirst(l, k, v) ==
    IF k = 0 \/ l = <<>> THEN l
    ELSE IF Head(l) = v THEN WithoutFirst(Tail(l), k - 1, v)
    ELSE <<Head(l)>> \o WithoutFirst(Tail(l), k, v)

\* The documented effect of LREM with count on a list l holding m elements
\* equal to v: the number removed and the list left.
Documented_lrem(l, count, v) ==
    LET m == Cardinality({n \in 1..Len(l) : l[n] = v})
        k == IF count = 0 THEN m
             ELSE Min(IF count < 0 THEN 0 - count ELSE count, m)
    IN  [removed |-> k,
         l |-> IF count < 0 THEN Reverse(WithoutFirst(Reverse(l), k, v))
               ELSE WithoutFirst(l, k, v)]

\* C16: lrem on a list replies the documented number of removed elements and
\* leaves the documented list at K (the first, the last or all elements equal
\* to the value removed, the others in their order), J as it was.
C16_LremCount ==
    \A t \in Threads :
        EndedOnList(t, {"lrem"})
        => LET d == Documented_lrem(ListFound(t), cur[t].i, cur[t].value)
           IN  /\ pc[t] = "done"
               /\ response[t] = Integer(d.removed)
               /\ Keyspace = [pre[t] EXCEPT ![K] = ListValue(d.l)]

\* C16 for every count but the least integer.
C16_LremCountNegatable ==
    \A t \in Threads :
        (EndedOnList(t, {"lrem"}) /\ cur[t].i /= I64Min)
        => LET d == Documented_lrem(ListFound(t), cur[t].i, cur[t].value)
           IN  /\ pc[t] = "done"
               /\ response[t] = Integer(d.removed)
               /\ Keyspace = [pre[t] EXCEPT ![K] = ListValue(d.l)]


\* The documented position of index i in a list of length n.
Documented_index(i, n) == IF i < 0 THEN i + n ELSE i

\* C17: lindex on a list replies the element at the normalized index when it
\* lies in 0..len-1 and Nil otherwise, changing nothing; lset on a list
\* overwrites exactly that element and replies OK when the normalized index
\* lies in 0..len-1, and otherwise replies the out-of-range error leaving the
\* list as it was; lset on an absent K replies the no-such-key error and
\* creates nothing.
C17_IndexNormalized ==
    \A t \in Threads :
        /\ EndedOnList(t, {"lindex"})
           => LET l == ListFound(t)
                  p == Documented_index(cur[t].i, Len(l))
              IN  /\ pc[t] = "done"
                  /\ response[t] = IF p \in 0..(Len(l) - 1)
                                   THEN BulkString(l[p + 1]) ELSE Nil
                  /\ Keyspace = pre[t]
        /\ EndedOnList(t, {"lset"})
           => LET l == ListFound(t)
                  p == Documented_index(cur[t].i, Len(l))
              IN  /\ pc[t] = "done"
                  /\ IF p \in 0..(Len(l) - 1)
                     THEN /\ response[t] = ok
                          /\ Keyspace = [pre[t] EXCEPT ![K] = ListValue(
                                 [n \in 1..Len(l) |->
                                     IF n = p + 1 THEN cur[t].value ELSE l[n]])]
                     ELSE /\ response[t] = out_of_range
                          /\ Keyspace = pre[t]
        /\ (Ended(t, {"lset"}) /\ K \notin DOMAIN pre[t])
           => (pc[t] = "done" /\ response[t] = no_such_key /\ Keyspace = pre[t])

\* An lset with a negative index has overwritten the last but one element of
\* a list of three with a different value.
C17_Witness ==
    \E t \in Threads :
        /\ pc[t] = "done" /\ cur[t].name = "lset" /\ cur[t].i = 0 - 2
        /\ K \in DOMAIN pre[t] /\ pre[t][K] = ListValue(<<A, A, B>>)
        /\ cur[t].value = B
        /\ response[t] = ok
        /\ Keyspace[K] = ListValue(<<A, B, B>>)


\* The keyspace of the call of t with K holding the list l.
WithList(t, l) ==
    [k \in (DOMAIN pre[t]) \cup {K} |-> IF k = K THEN ListValue(l) ELSE pre[t][k]]

\* C18: a list is a double-ended queue.  lpush puts the value before the
\* head and rpush after the tail, both replying the new length (1 and a list
\* of that one value when K was absent); lpop removes and replies the head
\* and rpop the tail, Nil on a list without elements or an absent K; the
\* other elements and J stay as they were.
C18_Deque ==
    \A t \in Threads :
        /\ EndedOnList(t, {"lpush", "rpush"})
           => /\ pc[t] = "done"
              /\ response[t] = Integer(Len(ListFound(t)) + 1)
              /\ Keyspace = WithList(t, IF cur[t].name = "lpush"
                                        THEN <<cur[t].value>> \o ListFound(t)
                                        ELSE ListFound(t) \o <<cur[t].value>>)
        /\ (Ended(t, {"lpush", "rpush"}) /\ K \notin DOMAIN pre[t])
           => /\ pc[t] = "done"
              /\ response[t] = Integer(1)
              /\ Keyspace = WithList(t, <<cur[t].value>>)
        /\ EndedOnList(t, {"lpop", "rpop"})
           => LET l == ListFound(t)
                  n == Len(l)
              IN  /\ pc[t] = "done"
                  /\ IF n = 0
                     THEN response[t] = Nil /\ Keyspace = pre[t]
                     ELSE IF cur[t].name = "lpop"
                     THEN /\ response[t] = BulkString(l[1])
                          /\ Keyspace = WithList(t, SubSeq(l, 2, n))
                     ELSE /\ response[t] = BulkString(l[n])
                          /\ Keyspace = WithList(t, SubSeq(l, 1, n - 1))
        /\ (Ended(t, {"lpop", "rpop"}) /\ K \notin DOMAIN pre[t])
           => (pc[t] = "done" /\ response[t] = Nil /\ Keyspace = pre[t])

\* The last call of a sequence is an lpop that found the list [b, a], has
\* replied its head b and has left [a].
C18_Witness ==
    \E t \in Threads :
        /\ pc[t] = "done" /\ cur[t].name = "lpop" /\ calls = MaxListCalls
        /\ K \in DOMAIN pre[t] /\ pre[t][K] = ListValue(<<B, A>>)
        /\ response[t] = BulkString(B)
        /\ Keyspace[K] = ListValue(<<A>>)


\* ------------------------------------------- concurrent SETNX on one key

\* Contents K can have when the setnx calls begin.
SetnxValues == {StringValue(<<"7">>), ListValue(<<A>>), ListValue(<<>>)}

InitSetnx ==
    \E checks \in BOOLEAN, ks \in SUBSET {K}, v \in SetnxValues :
        Fresh(checks, ks, [k \in ks |-> v]) /\ lin = {}

\* Every thread calls setnx(K, v) once, with a value of its choice, and
\* keeps its reply.
CallSetnx(t) ==
    \E v \in {A, B} :
        /\ cur[t] = NoOp
        /\ Call(t, Op("setnx", K, v, 0, 0, <<>>))

NextSetnx ==
    \E t \in Threads :
        CallSetnx(t) \/ MapUpgradableRead(t) \/ Lookup(t) \/ Upgrade(t) \/ Insert(t)

SpecSetnx == InitSetnx /\ [][NextSetnx]_vars

SetnxAllDone == \A t \in Threads : pc[t] = "done"

\* C19: no setnx panics or blocks for ever.  A setnx called with K present,
\* whatever its variant, replies 0 and changes nothing.  A setnx replies 1
\* only if it was called with K absent, and K then holds the string of that
\* caller; at most one call replies 1, and when all the calls have returned
\* and one of them began with K absent, exactly one has replied 1 and the
\* others 0.
C19_SetnxOnce ==
    /\ \A t \in Threads : pc[t] /= "panicked"
    /\ SetnxAllDone \/ ENABLED NextSetnx
    /\ \A t \in Threads : pc[t] = "done" =>
          /\ response[t] \in {Integer(0), Integer(1)}
          /\ K \in DOMAIN map
          /\ K \in DOMAIN pre[t] => (response[t] = Integer(0) /\ Keyspace = pre[t])
          /\ response[t] = Integer(1) =>
                /\ K \notin DOMAIN pre[t]
                /\ Keyspace = [k \in {K} |-> StringValue(cur[t].value)]
                /\ \A u \in Threads \ {t} : pc[u] = "done" => response[u] = Integer(0)
    /\ (SetnxAllDone /\ \E t \in Threads : K \notin DOMAIN pre[t])
       => \E t \in Threads : response[t] = Integer(1)

\* Two calls with different values began with K absent; both have returned,
\* the second thread's with 1 and the first thread's with 0, and K holds the
\* second thread's value.
C19_Witness ==
    /\ SetnxAllDone
    /\ \A t \in Threads : K \notin DOMAIN pre[t]
    /\ cur[1].value = A /\ cur[2].value = B
    /\ response[1] = Integer(0) /\ response[2] = Integer(1)
    /\ Keyspace[K] = StringValue(B)


\* ------------------------------------------ concurrent GETSET on one key

\* Calls one behaviour of the GETSET specification makes.
MaxGetsetCalls == 3

GetsetOps ==
    {Op("get", K, <<>>, 0, 0, <<>>)} \cup {Op("getset", K, v, 0, 0, <<>>) : v \in {A, B}}

InitGetset ==
    \E checks \in BOOLEAN, ks \in SUBSET {K} :
        \E vs \in [ks -> {StringValue(<<"7">>), ListValue(<<A>>)}] :
            /\ Fresh(checks, ks, vs)
            /\ lin = {[ks |-> vs, st |-> [t \in Threads |-> LinIdle]]}

\* Threads being interchangeable, only thread 1 makes more than one call.
CallGetset(t) ==
    \E op \in GetsetOps :
        /\ calls < MaxGetsetCalls
        /\ t > 1 => Returned(t) = 0
        /\ Begin(t, op)
        /\ lin' = LinClosure({[c EXCEPT !.st[t] = LinPending] : c \in lin},
                             [cur EXCEPT ![t] = op])

NextGetset ==
    \E t \in Threads : CallGetset(t) \/ Step(t) \/ ReturnLin(t)

SpecGetset == InitGetset /\ [][NextGetset]_vars

\* C20: a getset that ran alone (the only call made so far) has, with K
\* absent, stored String(v) and replied Nil; with K a string old, stored v
\* and replied old; with K a list, replied the wrong-type error and changed
\* nothing.  No getset panics, and whatever getsets and gets on K overlap,
\* their replies are those of the calls taking effect one at a time in some
\* order that respects returns before calls: the read of the old string and
\* the write of the new one are one step for every other call on the cell.
C20_GetsetAtomic ==
    /\ lin /= {}
    /\ \A t \in Threads : pc[t] /= "panicked"
    /\ \A t \in Threads :
          (calls = 1 /\ pc[t] = "done" /\ cur[t].name = "getset")
          => IF K \notin DOMAIN pre[t]
             THEN /\ response[t] = Nil
                  /\ Keyspace = [k \in {K} |-> StringValue(cur[t].value)]
             ELSE IF pre[t][K].type = "String"
             THEN /\ response[t] = BulkString(pre[t][K].s)
                  /\ Keyspace = [k \in {K} |-> StringValue(cur[t].value)]
             ELSE /\ response[t] = wrongtype
                  /\ Keyspace = pre[t]

\* Two getsets with different values were both called with K holding the
\* string 7; the first to return replied 7 and the other replied the first
\* one's value, which it has replaced with its own.
C20_Witness ==
    /\ Len(hist) >= 2
    /\ hist[1].t /= hist[2].t
    /\ hist[1].op = Op("getset", K, A, 0, 0, <<>>)
    /\ hist[2].op = Op("getset", K, B, 0, 0, <<>>)
    /\ hist[1].before = [k \in {K} |-> StringValue(<<"7">>)]
    /\ hist[2].before = hist[1].before
    /\ hist[1].reply = BulkString(<<"7">>)
    /\ hist[2].reply = BulkString(A)
    /\ Keyspace[K] = StringValue(B)


\* ------------------------------------------------- MGET of several keys

\* Keys one call of mget names.
MaxMgetKeys == 3

\* Contents a key can have when mget is called.
MgetValues == {StringValue(A), StringValue(B), StringValue(<<>>), ListValue(<<A>>)}

KeyVectors == UNION {[1..n -> {K, J}] : n \in 0..MaxMgetKeys}

InitMget ==
    \E checks \in BOOLEAN, ks \in SUBSET {K, J} :
        \E vs \in [ks -> MgetValues] : Fresh(checks, ks, vs) /\ lin = {}

\* One call of mget, alone.
CallMget(t) ==
    \E keys \in KeyVectors :
        /\ cur[t] = NoOp
        /\ Call(t, Op("mget", <<>>, <<>>, 0, 0, keys))

NextMget ==
    \/ CallMget(1)
    \/ MapRead(1)
    \/ MgetCollect(1)
    \/ MgetNext(1)
    \/ CellLock(1)
    \/ Body(1)

SpecMget == InitMget /\ [][NextMget]_vars

\* C21: mget does not panic; when it has returned, its reply is an array
\* whose count is the number of keys named and whose entry for each key, in
\* the order of the call, is the bulk string of the key's value if the key
\* holds a string and Nil if it is absent or holds a list; and the keyspace
\* is as it was at the call all along.
C21_MgetEntries ==
    \A t \in Threads :
        cur[t].name = "mget"
        => /\ pc[t] /= "panicked"
           /\ Keyspace = pre[t]
           /\ pc[t] = "done" =>
                 response[t] = Array(Len(cur[t].keys),
                     [n \in 1..Len(cur[t].keys) |->
                         LET k == cur[t].keys[n]
                         IN  IF k \in DOMAIN pre[t] /\ pre[t][k].type = "String"
                             THEN BulkString(pre[t][k].s) ELSE Nil])

\* An mget of K, J, K has returned, K holding a list and J a string.
C21_Witness ==
    \E t \in Threads :
        /\ pc[t] = "done" /\ cur[t].name = "mget" /\ cur[t].keys = <<K, J, K>>
        /\ K \in DOMAIN pre[t] /\ pre[t][K].type = "List"
        /\ J \in DOMAIN pre[t] /\ pre[t][J] = StringValue(B)
        /\ response[t] = Array(3, <<Nil, BulkString(B), Nil>>)


\* ------------------------------------------------- rejected requests

\* Requests one behaviour of the rejection specification decodes.
MaxRejectRequests == 2

\* Requests that name no command of the table.
UnknownRequests == {<<A>>, <<A, K>>, <<Typed("get") \o A, K>>}

\* Requests for a command of fixed arity with an argument missing or one too
\* many.
ArityRequests ==
    {<<Typed(n)>> : n \in {"get", "set", "incrby", "lrange"}}
    \cup {<<Typed(n), K, A>> : n \in {"get", "ping", "lrange", "incr"}}
    \cup {<<to_lowercase(Typed("set")), K>>, <<Typed("ping"), K>>}

\* Requests of the right arity with a word that is no integer where the
\* command takes an integer, the other arguments being a key, an integer or
\* a value.
NonIntegerRequests ==
    {<<Typed(n), k, A>> : n \in {"incrby", "decrby", "lindex"}, k \in {K, <<"1">>}}
    \cup {<<Typed(n), K, A, A>> : n \in {"lrem", "lset"}}
    \cup {<<Typed(n), k, A, <<"1">>>> : n \in {"lrange", "ltrim"}, k \in {K, <<"1">>}}
    \cup {<<Typed(n), k, <<"2">>, A>> : n \in {"lrange", "ltrim"}, k \in {K, <<"1">>}}

\* Requests that are served, which give the keyspace its contents.
ServedRequests ==
    {<<Typed("set"), K, <<"7">>>>, <<Typed("rpush"), K, A>>, <<Typed("get"), K>>,
     <<Typed("mget"), K, J>>, <<Typed("del"), K>>}

\* The commands of any arity, the name alone.
VariadicAlone == {<<Typed("mget")>>, <<Typed("del")>>, <<to_lowercase(Typed("del"))>>}

AcceptReject ==
    \E msg \in UnknownRequests \cup ArityRequests \cup NonIntegerRequests
               \cup ServedRequests \cup VariadicAlone :
        calls < MaxRejectRequests /\ Accept(Conn, msg)

NextReject ==
    \/ AcceptReject
    \/ Step(Conn)
    \/ MgetCollect(Conn)
    \/ MgetNext(Conn)
    \/ MapWrite(Conn)
    \/ DelStep(Conn)
    \/ Respond(Conn)

SpecReject == InitServer /\ [][NextReject]_vars

\* The documented positions of the integer arguments of a command, the
\* name being word 1.
IntegerPositions(name) ==
    CASE name \in {"decrby", "incrby", "lindex", "lrem", "lset"} -> {3}
      [] name \in {"lrange", "ltrim"} -> {3, 4}
      [] OTHER -> {}

\* A word that is not a decimal integer: it holds a character that is
\* neither a digit nor a sign.
NotDecimal(s) == \E n \in 1..Len(s) : ~IsDigit(s[n]) /\ s[n] \notin {"+", "-"}

\* The connection has answered the request it decoded last within the
\* reply, without a call of a Database function, the keyspace being as it
\* was, and goes on to its next request.
Rejected(t, reply) ==
    /\ pc[t] = "done"
    /\ response[t] = reply
    /\ cur[t] = NoOp
    /\ Keyspace = pre[t]

\* C22: a connection working on a request (not the empty one) rejects it in
\* band: with the unknown-command error if the lowercased name is not in
\* the table; with the arity error naming the lowercased command if the
\* command has a fixed arity and the request another number of arguments;
\* with the not-an-integer error if the arity is right and a word at a
\* documented integer position is no decimal integer.
C22_RejectedInBand ==
    \A t \in Threads :
        (pc[t] /= "idle" /\ inbox[t] /= <<>> /\ LastMsg(t) /= <<>>)
        => LET msg == LastMsg(t)
               command == to_lowercase(msg[1])
               found == get_command(command)
               e == CHOOSE x \in found : TRUE
           IN  IF found = {}
               THEN Rejected(t, ErrorFor(
                        "ERR unknown command {} with args beginning with: {}",
                        Command(msg)))
               ELSE IF e.arity /= -1 /\ Len(msg) /= e.arity + 1
               THEN Rejected(t, ErrorFor(
                        "ERR wrong number of arguments for '{}' command", command))
               ELSE (\E n \in IntegerPositions(e.name) : NotDecimal(msg[n]))
                    => Rejected(t, not_an_integer)

\* C22 without the third case: requests that name no command or have the
\* wrong number of arguments.
C22_UnknownOrArity ==
    \A t \in Threads :
        (pc[t] /= "idle" /\ inbox[t] /= <<>> /\ LastMsg(t) /= <<>>)
        => LET msg == LastMsg(t)
               command == to_lowercase(msg[1])
               found == get_command(command)
               e == CHOOSE x \in found : TRUE
           IN  IF found = {}
               THEN Rejected(t, ErrorFor(
                        "ERR unknown command {} with args beginning with: {}",
                        Command(msg)))
               ELSE (e.arity /= -1 /\ Len(msg) /= e.arity + 1)
                    => Rejected(t, ErrorFor(
                           "ERR wrong number of arguments for '{}' command", command))


\* C23: a connection working on a request that is the name MGET or DEL alone
\* rejects it with the arity error, without a call of a Database function.
C23_VariadicNeedsArgument ==
    \A t \in Threads :
        ( /\ pc[t] /= "idle" /\ inbox[t] /= <<>>
          /\ Len(LastMsg(t)) = 1
          /\ to_lowercase(LastMsg(t)[1]) \in {to_lowercase(Typed("mget")),
                                              to_lowercase(Typed("del"))} )
        => Rejected(t, ErrorFor("ERR wrong number of arguments for '{}' command",
                                to_lowercase(LastMsg(t)[1])))


\* ------------------------------------------- the INCR family's parsing

\* Calls one behaviour of the parsing specification makes.
MaxParseCalls == 2

\* Strings K can hold when a function of the INCR family is called: decimal
\* integers, the same with a plus sign, leading zeros or white space, words
\* that are no number, and a number beyond the range of i64.
StoredStrings ==
    {<<"0">>, <<"7">>, <<"-", "7">>, <<"1", "0">>, FormatI64(I64Max), FormatI64(I64Min),
     <<"+", "7">>, <<"0", "7">>, <<"0", "0">>, <<"-", "0", "7">>, <<"+", "0">>,
     <<" ", "7">>, <<"7", " ">>, <<>>, <<"-">>, <<"+">>, A, <<"7", "a">>,
     FormatI64(I64Max + 1), FormatI64(I64Min - 1)}

ParseOps ==
    {Op(n, K, <<>>, 0, 0, <<>>) : n \in {"incr", "decr"}}
    \cup {Op(n, K, <<>>, d, 0, <<>>) : n \in {"incrby", "decrby"}, d \in {0, 2}}

InitParse ==
    \E checks \in BOOLEAN, s \in StoredStrings :
        Fresh(checks, {K}, [k \in {K} |-> StringValue(s)]) /\ lin = {}

CallParse(t) == \E op \in ParseOps : calls < MaxParseCalls /\ Call(t, op)

NextParse ==
    \/ CallParse(1)
    \/ MapUpgradableRead(1)
    \/ Lookup(1)
    \/ CellLock(1)
    \/ Body(1)
    \/ Leave(1)

SpecParse == InitParse /\ [][NextParse]_vars

\* The documented integers: an optional minus sign, then digits, the first
\* of them 0 only when it is the only one, the value within i64.
StrictDecimal(s) ==
    LET d == IF s /= <<>> /\ s[1] = "-" THEN Tail(s) ELSE s
    IN  /\ d /= <<>>
        /\ \A n \in 1..Len(d) : IsDigit(d[n])
        /\ Len(d) > 1 => d[1] /= "0"
        /\ InI64(IF d = s THEN DigitsValue(d) ELSE 0 - DigitsValue(d))

\* C30: a function of the INCR family that finds at K a string that is not
\* a documented integer replies the not-an-integer error and leaves the
\* string as it was; one that finds a documented integer does not reply
\* that error.
C30_StrictDecimal ==
    \A t \in Threads :
        ( /\ Ended(t, RmwNames)
          /\ K \in DOMAIN pre[t] /\ pre[t][K].type = "String" )
        => IF StrictDecimal(pre[t][K].s)
           THEN response[t] /= not_an_integer
           ELSE /\ pc[t] = "done"
                /\ response[t] = not_an_integer
                /\ Keyspace = pre[t]

\* C30 for the strings free of a plus sign and of leading zeros.
C30_Unsigned ==
    \A t \in Threads :
        ( /\ Ended(t, RmwNames)
          /\ K \in DOMAIN pre[t] /\ pre[t][K].type = "String"
          /\ LET s == pre[t][K].s
                 d == IF s /= <<>> /\ s[1] \in {"+", "-"} THEN Tail(s) ELSE s
             IN  (s = <<>> \/ s[1] /= "+") /\ (Len(d) > 1 => d[1] /= "0") )
        => IF StrictDecimal(pre[t][K].s)
           THEN response[t] /= not_an_integer
           ELSE /\ pc[t] = "done"
                /\ response[t] = not_an_integer
                /\ Keyspace = pre[t]


\* =================================================== src/resp.rs: the codec

\* Bytes are strings of one character; these are the ones the codec looks at.
CR == "\r"
LF == "\n"
TAB == "\t"
FF == "\f"
CRLF == <<CR, LF>>

\* The first position of seq at or after from whose element satisfies
\* Test, or 0.
Position(seq, from, Test(_)) ==
    IF \E n \in from..Len(seq) : Test(seq[n])
    THEN CHOOSE n \in from..Len(seq) :
             Test(seq[n]) /\ \A m \in from..(n - 1) : ~Test(seq[m])
    ELSE 0

\* A tokenizer that splits at spaces only.
is_whitespace_space(byte) == byte = " "

\* is_whitespace (resp.rs:210-216): space, horizontal tab, line feed, form
\* feed, or carriage return.
is_whitespace(byte) == byte \in {" ", TAB, LF, FF, CR}

is_not_whitespace(byte) == ~is_whitespace(byte)

\* split_trim's loop (resp.rs:182-201): bytes is empty or begins with a
\* byte that is not whitespace.
RECURSIVE split_trim_loop(_)
split_trim_loop(bytes) ==
    IF bytes = <<>> THEN <<>>
    ELSE LET p == Position(bytes, 1, is_whitespace)
             first_whitespace == IF p = 0 THEN Len(bytes) ELSE p - 1
             rest == SubSeq(bytes, first_whitespace + 1, Len(bytes))
             i == Position(rest, 1, is_not_whitespace)
         IN  <<SubSeq(bytes, 1, first_whitespace)>>
             \o split_trim_loop(IF i = 0 THEN <<>> ELSE SubSeq(rest, i, Len(rest)))

\* split_trim (resp.rs:173-204).
split_trim(bytes) ==
    LET idx0 == Position(bytes, 1, is_not_whitespace)
    IN  IF idx0 = 0 THEN <<>>
        ELSE split_trim_loop(SubSeq(bytes, idx0, Len(bytes)))


\* str::parse::<usize>(): an optional '+', then one or more digits; a '-'
\* or a value beyond usize is an error.
ParseUSize(s) ==
    LET digits == IF s /= <<>> /\ s[1] = "+" THEN Tail(s) ELSE s
        v      == DigitsValue(digits)
    IN  IF digits = <<>> \/ \E n \in 1..Len(digits) : ~IsDigit(digits[n])
        THEN [ok |-> FALSE, v |-> 0]
        ELSE IF v <= USizeMax THEN [ok |-> TRUE, v |-> v]
        ELSE [ok |-> FALSE, v |-> 0]

\* The results of a nom parser: a value and the input that remains, a
\* demand for more input, or an error.
POk(value, rest) == [kind |-> "Ok", value |-> value, rest |-> rest]
PIncomplete == [kind |-> "Incomplete", value |-> <<>>, rest |-> <<>>]
PError == [kind |-> "Error", value |-> <<>>, rest |-> <<>>]

\* take_until_and_consume!(pat): the input before the first pat, and the
\* input after it; Incomplete when pat does not occur.
take_until_and_consume(input, pat) ==
    LET Here(n) == SubSeq(input, n, n + Len(pat) - 1) = pat
        found == {n \in 1..(Len(input) - Len(pat) + 1) : Here(n)}
        index == CHOOSE n \in found : \A m \in found : n <= m
    IN  IF found = {} THEN PIncomplete
        ELSE POk(SubSeq(input, 1, index - 1),
                 SubSeq(input, index + Len(pat), Len(input)))

\* tag!(t): an error when the input differs from t in the bytes both have,
\* else Incomplete when the input is shorter than t.
tag(input, t) ==
    IF \E n \in 1..Min(Len(input), Len(t)) : input[n] /= t[n] THEN PError
    ELSE IF Len(input) < Len(t) THEN PIncomplete
    ELSE POk(t, SubSeq(input, Len(t) + 1, Len(input)))

\* A reader of lines: the bytes before the next CRLF, whatever the length
\* announced.
take_line(input, n) ==
    LET line == take_until_and_consume(input, CRLF)
    IN  IF line.kind /= "Ok" THEN line ELSE POk(line.value, CRLF \o line.rest)

\* take!(n)
take(input, n) ==
    IF Len(input) < n THEN PIncomplete
    ELSE POk(SubSeq(input, 1, n), SubSeq(input, n + 1, Len(input)))

\* map_res!(map_res!(take_until_and_consume!("\r\n"), str::from_utf8),
\* str::parse::<usize>): a length and its line end.
length_line(input) ==
    LET line == take_until_and_consume(input, CRLF)
    IN  IF line.kind /= "Ok" THEN line
        ELSE IF ~ParseUSize(line.value).ok THEN PError
        ELSE POk(ParseUSize(line.value).v, line.rest)

\* One element of a client's array (resp.rs:229-241): '$', a length, that
\* many bytes, CRLF.
bulk_element(input) ==
    LET dollar == tag(input, <<"$">>)
        len    == length_line(dollar.rest)
        data   == take(len.rest, len.value)
        end    == tag(data.rest, CRLF)
    IN  IF dollar.kind /= "Ok" THEN dollar
        ELSE IF len.kind /= "Ok" THEN len
        ELSE IF data.kind /= "Ok" THEN data
        ELSE IF end.kind /= "Ok" THEN end
        ELSE POk(data.value, end.rest)

\* count!(element, n): n elements in a row.
RECURSIVE count_elements(_, _)
count_elements(input, n) ==
    IF n = 0 THEN POk(<<>>, input)
    ELSE LET e == bulk_element(input)
             more == count_elements(e.rest, n - 1)
         IN  IF e.kind /= "Ok" THEN e
             ELSE IF more.kind /= "Ok" THEN more
             ELSE POk(<<e.value>> \o more.value, more.rest)

\* parse_client_message (resp.rs:218-247): an array of bulk strings when
\* the first byte is '*', else a line split at whitespace.
parse_client_message(input) ==
    IF input = <<>> THEN PIncomplete
    ELSE IF input[1] = "*"
    THEN LET len == length_line(Tail(input))
         IN  IF len.kind /= "Ok" THEN len ELSE count_elements(len.rest, len.value)
    ELSE LET line == take_until_and_consume(input, <<LF>>)
         IN  IF line.kind /= "Ok" THEN line
             ELSE POk(split_trim(line.value), line.rest)


\* ------------------------------------------------ src/main.rs: client_loop

IsLF(byte) == byte = LF

\* buf[start_idx..].iter().position(|b| *b == b'\n') is Some (main.rs:105).
NewlineAhead(t) == Position(buf[t], start_idx[t] + 1, IsLF) /= 0

\* parse_buffer and what client_loop does with its result (main.rs:106-119,
\* 142-161).  A message decoded is taken off the front of the buffer and
\* handed to make_response (its bytes become the Strings of the message);
\* Incomplete leaves the buffer and moves the scan to its end; on an error
\* the bytes before the position the parser reports are dropped, and the
\* loop goes on.  The position is the parser library's choice.
ParseBuffer(t) ==
    LET r == parse_client_message(buf[t]) IN
    /\ pc[t] = "idle"
    /\ NewlineAhead(t)
    /\ decoded' = r
    /\ CASE r.kind = "Ok" ->
              /\ buf' = [buf EXCEPT ![t] = r.rest]
              /\ start_idx' = [start_idx EXCEPT ![t] = 0]
              /\ Dispatch(t, r.value)
              /\ UNCHANGED wire
         [] r.kind = "Incomplete" ->
              /\ start_idx' = [start_idx EXCEPT ![t] = Len(buf[t])]
              /\ UNCHANGED <<overflow_checks, map, cells, mapLock, cellLock, pc, cur,
                             bucket_ptr, response, idx, num_removed, hist, calls,
                             pre, lin, sent, inbox, buf, wire, reserved, requests, table, plain>>
         [] r.kind = "Error" ->
              /\ \E n \in 0..Len(buf[t]) :
                    buf' = [buf EXCEPT ![t] = SubSeq(@, n + 1, Len(@))]
              /\ start_idx' = [start_idx EXCEPT ![t] = 0]
              /\ UNCHANGED <<overflow_checks, map, cells, mapLock, cellLock, pc, cur,
                             bucket_ptr, response, idx, num_removed, hist, calls,
                             pre, lin, sent, inbox, wire, reserved, requests, table, plain>>

\* socket.read (main.rs:120-137): some of the bytes the client has sent
\* arrive at the end of the buffer; when the client has sent everything and
\* shut its side down, read returns 0 and client_loop returns.
ReadSocket(t) ==
    /\ pc[t] = "idle"
    /\ ~NewlineAhead(t)
    /\ start_idx' = [start_idx EXCEPT ![t] = Len(buf[t])]
    /\ IF wire[t] = <<>>
       THEN /\ pc' = [pc EXCEPT ![t] = "closed"]
            /\ UNCHANGED <<buf, wire>>
       ELSE /\ \E i \in 1..Len(wire[t]) :
                  /\ buf' = [buf EXCEPT ![t] = @ \o SubSeq(wire[t], 1, i)]
                  /\ wire' = [wire EXCEPT ![t] = SubSeq(@, i + 1, Len(@))]
            /\ UNCHANGED pc
    /\ UNCHANGED <<overflow_checks, map, cells, mapLock, cellLock, cur, bucket_ptr,
                   response, idx, num_removed, hist, calls, pre, lin, sent, inbox,
                   decoded, reserved, requests, table, plain>>


\* ------------------------------------------------- decoding one message

\* Arguments of one array-framed message, and bytes of one inline line.
MaxArgs == 2
MaxLineLen == 3

\* The array framing of an argument vector: '*N CRLF', then for each
\* argument '$len CRLF bytes CRLF'.
RECURSIVE BulkFraming(_)
BulkFraming(args) ==
    IF args = <<>> THEN <<>>
    ELSE <<"$">> \o FormatNat(Len(Head(args))) \o CRLF \o Head(args) \o CRLF
         \o BulkFraming(Tail(args))

ArrayFraming(args) == <<"*">> \o FormatNat(Len(args)) \o CRLF \o BulkFraming(args)

\* Arguments: empty, plain, holding whitespace, CR, LF or framing bytes, and
\* one whose length has two digits.
DecodeArgs ==
    {<<>>, A, <<"a", " ", "b">>, <<CR>>, <<LF>>, CRLF, <<"$", "1">>, <<"*">>,
     [n \in 1..10 |-> "a"]}

ArrayFrames ==
    {Frame(args, ArrayFraming(args), TRUE) :
        args \in UNION {[1..n -> DecodeArgs] : n \in 0..MaxArgs}}

\* The documented tokens of a line: its maximal runs of bytes that are not
\* space, tab, LF, FF or CR, in order.
Tokens(line) ==
    LET White(n) == line[n] \in {" ", TAB, LF, FF, CR}
        starts == {n \in 1..Len(line) : ~White(n) /\ (n = 1 \/ White(n - 1))}
        Run(s) == SubSeq(line, s,
                      CHOOSE e \in s..Len(line) :
                          /\ \A m \in s..e : ~White(m)
                          /\ e = Len(line) \/ White(e + 1))
        Nth(k) == CHOOSE s \in starts : Cardinality({x \in starts : x < s}) = k - 1
    IN  [k \in 1..Cardinality(starts) |-> Run(Nth(k))]

LlenMylist == <<"L", "L", "E", "N", " ", "m", "y", "l", "i", "s", "t", CR, LF>>

\* Inline lines: every line of up to MaxLineLen bytes over letters and
\* whitespace, ended by LF, and the line LLEN mylist CRLF.
InlineFrames ==
    {Frame(Tokens(line), line, TRUE) :
        line \in {l \o <<LF>> :
                     l \in UNION {[1..n -> {"a", "b", " ", TAB, CR, FF}] :
                                     n \in 0..MaxLineLen}}
                 \cup {LlenMylist}}

\* The beginning of a further message, which follows the one decoded.
Tails == {<<>>, <<"a">>, <<"*", "1", CR>>}

InitDecode ==
    \E checks \in BOOLEAN, f \in ArrayFrames \cup InlineFrames, tail \in Tails :
        /\ Started(checks, {}, <<>>,
                   [t \in Threads |-> IF t = Conn THEN <<f, Frame(<<>>, tail, FALSE)>>
                                      ELSE <<>>])
        /\ lin = {}

NextDecode ==
    \/ ReadSocket(Conn)
    \/ ParseBuffer(Conn)
    \/ MapRead(Conn)
    \/ Lookup(Conn)
    \/ Respond(Conn)

SpecDecode == InitDecode /\ [][NextDecode]_vars

\* The messages the connection has decoded are those of the first frames
\* its client sent, and the bytes of the other frames are in the buffer or
\* still to be read.
DecodedInOrder(t) ==
    /\ Len(inbox[t]) <= Len(requests[t])
    /\ \A n \in 1..Len(inbox[t]) : requests[t][n].whole /\ inbox[t][n] = requests[t][n].msg
    /\ buf[t] \o wire[t] = Bytes(requests[t], Len(inbox[t]) + 1)

\* C27: a connection whose client sent the array framing of an argument
\* vector, followed by other bytes, never finds a framing error; the message
\* it decodes is that vector, same order and same bytes, and no byte of what
\* follows the framing is consumed with it.
C27_ArrayFramingDecodes ==
    \A t \in Threads :
        (requests[t] /= <<>> /\ Head(requests[t][1].bytes) = "*")
        => /\ DecodedInOrder(t)
           /\ decoded /= <<>> => decoded.kind /= "Error"
           /\ (pc[t] = "closed") => Len(inbox[t]) = 1

\* The vector [a b, CR LF] has been decoded, and the three bytes that
\* follow its framing are in the buffer.
C27_Witness ==
    /\ inbox[Conn] = <<<< <<"a", " ", "b">>, CRLF >>>>
    /\ decoded.kind = "Ok"
    /\ buf[Conn] = <<"*", "1", CR>>
    /\ wire[Conn] = <<>>


\* C28: a connection whose client sent a line that does not begin with '*',
\* followed by other bytes, decodes one message from the bytes up to and
\* including the first LF: its arguments are the maximal runs of bytes that
\* are not space, tab, LF, FF or CR, in order, none of them empty, and the
\* bytes after the LF are not consumed with it.
C28_InlineFramingDecodes ==
    \A t \in Threads :
        (requests[t] /= <<>> /\ Head(requests[t][1].bytes) /= "*")
        => /\ DecodedInOrder(t)
           /\ decoded /= <<>> => decoded.kind /= "Error"
           /\ \A n \in 1..Len(inbox[t]) : \A k \in 1..Len(inbox[t][n]) : inbox[t][n][k] /= <<>>
           /\ (pc[t] = "closed") => Len(inbox[t]) = 1

\* The line LLEN mylist CRLF has been decoded into [LLEN, mylist], and
\* nothing remains.
C28_Witness ==
    /\ requests[Conn][1].bytes = LlenMylist
    /\ inbox[Conn] = <<<< <<"L", "L", "E", "N">>, <<"m", "y", "l", "i", "s", "t">> >>>>
    /\ decoded.kind = "Ok"
    /\ buf[Conn] = <<>>
    /\ wire[Conn] = <<>>


\* ---------------------------------------------------- framing errors

PingLine == <<"P", "I", "N", "G", CR, LF>>

\* Frames that are not the framing of a message: a length that is not a
\* number, a negative count, a bulk length that is not a number, bytes where
\* the CRLF after a bulk string should be, and a byte other than '$' at the
\* start of an element.
BadFrames ==
    {<<"*", "x">> \o CRLF,
     <<"*", "-", "1">> \o CRLF,
     <<"*", "1">> \o CRLF \o <<"$", "x">> \o CRLF,
     <<"*", "1">> \o CRLF \o <<"$", "1">> \o CRLF \o <<"a", "b">> \o CRLF,
     <<"*", "1">> \o CRLF \o <<"+", "O", "K">> \o CRLF}

\* A client sends a frame with a framing error and then the line PING.
InitFraming ==
    \E checks \in BOOLEAN, bad \in BadFrames :
        /\ Started(checks, {}, <<>>,
                   [t \in Threads |->
                       IF t = Conn THEN <<Frame(<<>>, bad, FALSE),
                                          Frame(<<Typed("ping")>>, PingLine, TRUE)>>
                       ELSE <<>>])
        /\ lin = {}

NextFraming ==
    \/ ReadSocket(Conn)
    \/ ParseBuffer(Conn)
    \/ Respond(Conn)

SpecFraming == InitFraming /\ [][NextFraming]_vars

\* C24: after the decoding of a client's message has failed with a framing
\* error the connection is closed; and on a connection whose first frame has
\* a framing error no request is dispatched and no reply is written.
C24_FramingErrorCloses ==
    /\ (decoded /= <<>> /\ decoded.kind = "Error") => pc[Conn] = "closed"
    /\ inbox[Conn] = <<>>
    /\ sent[Conn] = <<>>


\* ------------------------------------------------- streams of requests

MaxStreamFrames == 2

GetName == <<"G", "E", "T">>

\* Complete requests, inline and array-framed, one of them with an LF
\* inside an argument, and the blank line.
StreamFrames ==
    {Frame(<<Typed("ping")>>, <<"P", "I", "N", "G", LF>>, TRUE),
     Frame(<<Typed("ping")>>, ArrayFraming(<<Typed("ping")>>), TRUE),
     Frame(<<GetName, K>>, GetName \o <<" ">> \o K \o CRLF, TRUE),
     Frame(<<GetName, <<LF>> >>, ArrayFraming(<<GetName, <<LF>> >>), TRUE),
     Frame(<<>>, CRLF, TRUE)}

\* A client sends up to MaxStreamFrames requests and closes its side; the
\* bytes arrive in reads of any sizes.
InitStream ==
    \E checks \in BOOLEAN :
    \E frames \in UNION {[1..n -> StreamFrames] : n \in 1..MaxStreamFrames} :
        /\ Started(checks, {}, <<>>, [t \in Threads |-> IF t = Conn THEN frames ELSE <<>>])
        /\ lin = {}

NextStream ==
    \/ ReadSocket(Conn)
    \/ ParseBuffer(Conn)
    \/ MapRead(Conn)
    \/ Lookup(Conn)
    \/ Respond(Conn)

SpecStream == InitStream /\ [][NextStream]_vars

\* The reply to a request of StreamFrames on an empty keyspace.
ExpectedReply(msg) ==
    IF msg[1] = Typed("ping") THEN SimpleString("PONG") ELSE Nil

\* The requests dispatched so far are the first requests of the stream, in
\* order, each once; the replies written are theirs, in order, and at most
\* the last request is unanswered.
StreamInOrder(t) ==
    /\ DecodedInOrder(t)
    /\ Len(sent[t]) <= Len(inbox[t])
    /\ Len(inbox[t]) <= Len(sent[t]) + 1
    /\ \A n \in 1..Len(sent[t]) : sent[t][n] = ExpectedReply(inbox[t][n])

\* Once the connection's thread has ended every request of the stream has
\* been dispatched and answered.
StreamServed(t) ==
    pc[t] \in {"closed", "panicked"}
    => /\ Len(inbox[t]) = Len(requests[t])
       /\ Len(sent[t]) = Len(requests[t])

\* C25: however the stream is split across reads, every complete request in
\* it is dispatched exactly once and in arrival order, and the replies are
\* written in request order.
C25_EveryRequestDispatched == StreamInOrder(Conn) /\ StreamServed(Conn)

\* C25, the steps of the buffer: a decoding that needs more bytes leaves
\* the buffer unchanged and sets the scan index to the end of the buffer; a
\* decoding that yields a message removes exactly that message's bytes from
\* the front of the buffer and resets the scan index to 0.
C25_BufferSteps ==
    [][ParseBuffer(Conn)
       => /\ decoded'.kind /= "Error"
          /\ decoded'.kind = "Incomplete"
             => buf' = buf /\ start_idx'[Conn] = Len(buf[Conn])
          /\ decoded'.kind = "Ok"
             => /\ buf[Conn] = requests[Conn][Len(inbox'[Conn])].bytes \o buf'[Conn]
                /\ start_idx'[Conn] = 0]_vars

\* C25 on streams of non-empty messages: the requests are dispatched in
\* order, each once, the replies follow in order, and the thread ends with
\* all of them served.
C25_NonEmptyInOrder ==
    (\A n \in 1..Len(requests[Conn]) : requests[Conn][n].msg /= <<>>)
    => /\ StreamInOrder(Conn)
       /\ StreamServed(Conn)
       /\ pc[Conn] /= "panicked"


\* ------------------------------------------- src/resp.rs: the reply codec

\* RespData::SimpleString and RespData::Error (resp.rs:36-37) of a text
\* given as bytes.
SimpleStringOf(bytes) ==
    [kind |-> "SimpleString", text |-> "", i |-> 0, b |-> bytes, elems |-> <<>>]
ErrorOf(bytes) ==
    [kind |-> "Error", text |-> "", i |-> 0, b |-> bytes, elems |-> <<>>]

\* RespData::write_to (resp.rs:57-92): the bytes written for a reply whose
\* texts are byte sequences.
RECURSIVE write_to(_)
write_to(R) ==
    LET RECURSIVE elements(_)
        elements(a) == IF a = <<>> THEN <<>>
                       ELSE write_to(Head(a)) \o elements(Tail(a))
    IN  CASE R.kind = "SimpleString" -> <<"+">> \o R.b \o CRLF
          [] R.kind = "Error"        -> <<"-">> \o R.b \o CRLF
          [] R.kind = "Integer"      -> <<":">> \o FormatI64(R.i) \o CRLF
          [] R.kind = "BulkString"   -> <<"$">> \o FormatNat(Len(R.b)) \o CRLF \o R.b \o CRLF
          [] R.kind = "Nil"          -> <<"$", "-", "1">> \o CRLF
          [] R.kind = "Array"        -> <<"*">> \o FormatNat(Len(R.elems)) \o CRLF
                                        \o elements(R.elems)

RECURSIVE Pow10(_)
Pow10(n) == IF n = 0 THEN 1 ELSE 10 * Pow10(n - 1)

\* serialized_len(num) (resp.rs:113-119): 1 for 0, else the ceiling of the
\* decimal logarithm of num + 1, which is the number of digits of num as
\* long as the f64 computation is exact (it is for every num of the model).
\* num + 1 wraps to 0 at usize::MAX in a build without overflow checks, and
\* the cast of the logarithm of 0 gives 0.
serialized_len(num) ==
    IF num = 0 THEN 1
    ELSE LET x == WrapUSize(num + 1)
         IN  CHOOSE d \in 0..IntBits : Pow10(d) >= x /\ (d = 0 \/ Pow10(d - 1) < x)

\* i.abs() as usize (resp.rs:98): the absolute value of i64::MIN wraps to
\* i64::MIN in a build without overflow checks.
abs_as_usize(i) == WrapUSize(WrapI64(IF i < 0 THEN 0 - i ELSE i))

\* RespData::serialized_len (resp.rs:94-110). Sums of lengths of objects in
\* memory stay far below usize::MAX and are not wrapped.
RECURSIVE RespData_serialized_len(_)
RespData_serialized_len(R) ==
    LET RECURSIVE fold(_, _)
        fold(a, x) == IF a = <<>> THEN x
                      ELSE fold(Tail(a), x + RespData_serialized_len(Head(a)))
    IN  CASE R.kind \in {"SimpleString", "Error"} -> Len(R.b) + 3
          [] R.kind = "Integer" ->
                 serialized_len(abs_as_usize(R.i)) + 3 + (IF R.i < 0 THEN 1 ELSE 0)
          [] R.kind = "BulkString" -> Len(R.b) + serialized_len(Len(R.b)) + 5
          [] R.kind = "Nil" -> 5
          [] R.kind = "Array" -> fold(R.elems, 3 + serialized_len(Len(R.elems)))

\* i.abs() (resp.rs:98) overflows for i64::MIN, in the reply or in an
\* element of it: a panic in a build with overflow checks.
RECURSIVE abs_overflows(_)
abs_overflows(R) ==
    \/ R.kind = "Integer" /\ R.i = I64Min
    \/ R.kind = "Array" /\ \E n \in 1..Len(R.elems) : abs_overflows(R.elems[n])

\* mod parse (resp.rs:123-171).
simple_string(input) ==
    LET data == take_until_and_consume(input, CRLF)
    IN  IF data.kind /= "Ok" THEN data ELSE POk(SimpleStringOf(data.value), data.rest)

error(input) ==
    LET data == take_until_and_consume(input, CRLF)
    IN  IF data.kind /= "Ok" THEN data ELSE POk(ErrorOf(data.value), data.rest)

integer(input) ==
    LET line == take_until_and_consume(input, CRLF)
    IN  IF line.kind /= "Ok" THEN line
        ELSE IF ~ParseI64(line.value).ok THEN PError
        ELSE POk(Integer(ParseI64(line.value).v), line.rest)

\* A bulk string read as a line: the bytes before the next CRLF.
bulk_string_line(input) ==
    LET len  == length_line(input)
        data == take_until_and_consume(len.rest, CRLF)
    IN  IF len.kind /= "Ok" THEN len
        ELSE IF data.kind /= "Ok" THEN data
        ELSE POk(BulkString(data.value), data.rest)

bulk_string(input) ==
    LET len  == length_line(input)
        data == take(len.rest, len.value)
        end  == tag(data.rest, CRLF)
    IN  IF len.kind /= "Ok" THEN len
        ELSE IF data.kind /= "Ok" THEN data
        ELSE IF end.kind /= "Ok" THEN end
        ELSE POk(BulkString(data.value), end.rest)

nil(input) ==
    LET t == tag(input, <<"-", "1">> \o CRLF)
    IN  IF t.kind /= "Ok" THEN t ELSE POk(Nil, t.rest)

\* alt!(nil | bulk_string): the second parser runs when the first fails
\* with an error; Incomplete is returned as it is.
nil_or_bulk_string(input) ==
    IF nil(input).kind = "Error" THEN bulk_string(input) ELSE nil(input)

\* resp (resp.rs:162-170), array (resp.rs:156-160) and its count!(resp, len).
RECURSIVE resp(_)
resp(input) ==
    LET RECURSIVE count_resp(_, _)
        count_resp(i, n) ==
            IF n = 0 THEN POk(<<>>, i)
            ELSE LET e == resp(i)
                     more == count_resp(e.rest, n - 1)
                 IN  IF e.kind /= "Ok" THEN e
                     ELSE IF more.kind /= "Ok" THEN more
                     ELSE POk(<<e.value>> \o more.value, more.rest)
        array(i) ==
            LET len     == length_line(i)
                results == count_resp(len.rest, len.value)
            IN  IF len.kind /= "Ok" THEN len
                ELSE IF results.kind /= "Ok" THEN results
                ELSE POk(Array(Len(results.value), results.value), results.rest)
        first == take(input, 1)
    IN  IF first.kind /= "Ok" THEN first
        ELSE CASE first.value = <<"+">> -> simple_string(first.rest)
               [] first.value = <<"-">> -> error(first.rest)
               [] first.value = <<":">> -> integer(first.rest)
               [] first.value = <<"$">> -> nil_or_bulk_string(first.rest)
               [] first.value = <<"*">> -> array(first.rest)
               [] OTHER -> PError


\* FromStr for RespData (resp.rs:249-268): the parse succeeds only when no
\* byte remains.
from_str(s) ==
    LET r == resp(s)
    IN  IF r.kind = "Ok" /\ r.rest /= <<>>
        THEN [kind |-> "TrailingData", value |-> <<>>, rest |-> <<>>]
        ELSE r

MaxArrayLen == 2

OkText == <<"O", "K">>

\* Replies that are not arrays: texts without CR or LF, every integer, bulk
\* strings that are empty, that hold CRLF or look like a length, and one
\* whose length has two digits.
Leaves ==
    {SimpleStringOf(<<>>), SimpleStringOf(OkText), SimpleStringOf(<<"a", " ", "b">>),
     ErrorOf(<<>>), ErrorOf(<<"E", "R", "R", " ", "x">>),
     BulkString(<<>>), BulkString(A), BulkString(CRLF), BulkString(<<"-", "1">>),
     BulkString([n \in 1..10 |-> "a"]), Nil}
    \cup {Integer(i) : i \in I64Min..I64Max}

ElemLeaves ==
    {SimpleStringOf(OkText), ErrorOf(<<"E">>), Integer(0 - 3), Integer(I64Min),
     BulkString(<<>>), BulkString(CRLF), Nil}

ArraysOver(elems) ==
    {Array(Len(a), a) : a \in UNION {[1..n -> elems] : n \in 0..MaxArrayLen}}

InnerArrays ==
    {Array(0, <<>>), Array(1, <<Nil>>), Array(2, <<Integer(0 - 3), BulkString(<<>>)>>)}

Replies == Leaves \cup ArraysOver(ElemLeaves \cup InnerArrays)

InitCodec == \E checks \in BOOLEAN : Fresh(checks, {}, <<>>) /\ lin = {}

\* A reply value is built.
Build(t) ==
    /\ pc[t] = "idle"
    /\ \E R \in Replies : response' = [response EXCEPT ![t] = R]
    /\ pc' = [pc EXCEPT ![t] = "built"]
    /\ UNCHANGED <<overflow_checks, map, cells, mapLock, cellLock, cur, bucket_ptr,
                   idx, num_removed, hist, calls, pre, lin, sent, inbox,
                   buf, start_idx, wire, decoded, reserved, requests, table, plain>>

\* write_to into an empty buffer.
WriteTo(t) ==
    /\ pc[t] = "built"
    /\ buf' = [buf EXCEPT ![t] = write_to(response[t])]
    /\ pc' = [pc EXCEPT ![t] = "written"]
    /\ UNCHANGED <<overflow_checks, map, cells, mapLock, cellLock, cur, bucket_ptr,
                   response, idx, num_removed, hist, calls, pre, lin, sent, inbox,
                   start_idx, wire, decoded, reserved, requests, table, plain>>

\* serialize (resp.rs:50-55): a buffer of capacity serialized_len(), then
\* write_to.
Serialize(t) ==
    /\ pc[t] = "built"
    /\ IF overflow_checks /\ abs_overflows(response[t])
       THEN Unwind(t) /\ UNCHANGED <<buf, reserved>>
       ELSE /\ reserved' = RespData_serialized_len(response[t])
            /\ buf' = [buf EXCEPT ![t] = write_to(response[t])]
            /\ pc' = [pc EXCEPT ![t] = "serialized"]
    /\ UNCHANGED <<overflow_checks, map, cells, mapLock, cellLock, cur, bucket_ptr,
                   response, idx, num_removed, hist, calls, pre, lin, sent, inbox,
                   start_idx, wire, decoded, requests, table, plain>>

\* The bytes written are parsed.
FromStr(t) ==
    /\ pc[t] \in {"written", "serialized"}
    /\ decoded' = from_str(buf[t])
    /\ pc' = [pc EXCEPT ![t] = "parsed"]
    /\ UNCHANGED <<overflow_checks, map, cells, mapLock, cellLock, cur, bucket_ptr,
                   response, idx, num_removed, hist, calls, pre, lin, sent, inbox,
                   buf, start_idx, wire, reserved, requests, table, plain>>

NextCodec ==
    \/ Build(Conn)
    \/ WriteTo(Conn)
    \/ Serialize(Conn)
    \/ FromStr(Conn)

SpecCodec == InitCodec /\ [][NextCodec]_vars

\* C26: parsing the bytes written for a reply value built from SimpleString,
\* Error (texts without CR or LF), Integer, BulkString, Nil and Array of
\* these consumes all the bytes and yields a value equal to it.
C26_RoundTrip ==
    \A t \in Threads :
        pc[t] = "parsed"
        => /\ decoded.kind = "Ok"
           /\ decoded.rest = <<>>
           /\ decoded.value = response[t]

\* A nested array that holds a bulk string of CRLF and the least integer
\* has been written and parsed back.
C26_Witness ==
    /\ pc[Conn] = "parsed"
    /\ decoded.kind = "Ok"
    /\ response[Conn] = Array(2, <<Array(2, <<Integer(0 - 3), BulkString(<<>>)>>),
                                   BulkString(CRLF)>>)
    /\ buf[Conn] = <<"*", "2", CR, LF, "*", "2", CR, LF, ":", "-", "3", CR, LF,
                     "$", "0", CR, LF, CR, LF, "$", "2", CR, LF, CR, LF, CR, LF>>


\* The documented wire form of a reply: '+s CRLF', '-s CRLF', ':i CRLF',
\* '$len CRLF b CRLF', '$-1 CRLF', and '*n CRLF' followed by the elements
\* in order.
RECURSIVE WireForm(_)
WireForm(R) ==
    LET Line(mark, bytes) == <<mark>> \o bytes \o CRLF
        RECURSIVE Each(_)
        Each(a) == IF a = <<>> THEN <<>> ELSE WireForm(Head(a)) \o Each(Tail(a))
    IN  CASE R.kind = "SimpleString" -> Line("+", R.b)
          [] R.kind = "Error"        -> Line("-", R.b)
          [] R.kind = "Integer"      -> Line(":", FormatI64(R.i))
          [] R.kind = "BulkString"   -> Line("$", FormatNat(Len(R.b))) \o R.b \o CRLF
          [] R.kind = "Nil"          -> Line("$", <<"-", "1">>)
          [] R.kind = "Array"        -> Line("*", FormatNat(Len(R.elems))) \o Each(R.elems)

\* After serialize() the length serialized_len() gave is the number of
\* bytes produced, and the bytes are the wire form of the reply.
LenAndBytes(t) ==
    pc[t] = "serialized"
    => /\ reserved = Len(buf[t])
       /\ buf[t] = WireForm(response[t])

\* C29: for every reply value, Integer of either sign included,
\* serialized_len() is the number of bytes serialize() produces and the
\* bytes are the wire form of the value: serialize() yields bytes for every
\* reply, and they are these.
C29_SerializedLen ==
    \A t \in Threads : pc[t] /= "panicked" /\ LenAndBytes(t)

\* C29 where it holds: whenever serialize() returns, the length and the
\* bytes agree and are the wire form; it does not return only for a reply
\* that holds the least integer, in a build with overflow checks.
C29_LenWhenReturned ==
    \A t \in Threads :
        /\ LenAndBytes(t)
        /\ pc[t] = "panicked" => overflow_checks /\ abs_overflows(response[t])


\* --------------------------------------------------- overflow of INCR

\* C31: when the result of an integer read-modify-write (the stored value
\* plus or minus the delta, or the negated delta of DECRBY on an absent key)
\* is outside the 64-bit signed range, the call replies the not-an-integer
\* error and leaves the keyspace unchanged; it neither wraps nor aborts.
C31_OverflowDetected ==
    /\ \A n \in 1..Len(hist) :
           (hist[n].op.name \in RmwNames /\ ~RmwInRange(hist[n].op, hist[n].before))
           => /\ hist[n].reply = not_an_integer
              /\ hist[n].after = hist[n].before
    /\ \A t \in Threads :
           (pc[t] = "panicked" /\ cur[t].name \in RmwNames) => RmwInRange(cur[t], pre[t])


\* ------------------------------------------------ inserts of absent keys

MaxInsertCalls == 3

\* The functions that insert an absent key, and those that remove a key.
InsertOps ==
    {Op(n, K, A, 0, 0, <<>>) : n \in {"set", "setnx", "getset", "lpush", "rpush"}}
    \cup {Op("rpush", K, B, 0, 0, <<>>), Op("incr", K, <<>>, 0, 0, <<>>)}
    \cup {Op("ltrim", K, <<>>, 1, 0, <<>>), Op("del", <<>>, <<>>, 0, 0, <<K>>)}

InitInsert ==
    \E checks \in BOOLEAN, ks \in SUBSET {K},
       v \in {StringValue(<<"7">>), ListValue(<<A>>)} :
        Fresh(checks, ks, [k \in ks |-> v]) /\ lin = {}

\* Threads being interchangeable, only thread 1 makes more than one call.
CallInsert(t) ==
    \E op \in InsertOps :
        /\ calls < MaxInsertCalls
        /\ t > 1 => Returned(t) = 0 /\ cur[t] = NoOp
        /\ Call(t, op)

NextInsert ==
    \E t \in Threads :
        \/ CallInsert(t)
        \/ InsertingStep(t)
        \/ MapWrite(t)
        \/ DelStep(t)
        \/ LtrimUpgrade(t)
        \/ LtrimRemove(t)
        \/ Return(t)

SpecInsert == InitInsert /\ [][NextInsert]_vars

\* C32: a call that found its key absent under the upgradable read and
\* has upgraded finds it absent still, so the Occupied branch is not
\* reached and no call panics; and two pushes that both began with the key
\* absent, nothing else having run, leave a list of two elements.
C32_InsertAtomic ==
    /\ \A t \in Threads : pc[t] = "insert" => cur[t].key \notin DOMAIN map
    /\ \A t \in Threads : pc[t] /= "panicked"
    /\ (/\ calls = 2
        /\ Len(hist) = 2
        /\ \A n \in 1..2 : /\ hist[n].op.name \in {"lpush", "rpush"}
                           /\ K \notin DOMAIN hist[n].before)
       => /\ K \in DOMAIN map
          /\ Keyspace[K].type = "List"
          /\ Len(Keyspace[K].l) = 2

\* Two rpush calls began with K absent, the second while the first had
\* found K absent and not yet inserted it; both have returned and K holds
\* both elements.
C32_Witness ==
    /\ Len(hist) = 2
    /\ hist[1].op = Op("rpush", K, A, 0, 0, <<>>)
    /\ hist[2].op = Op("rpush", K, B, 0, 0, <<>>)
    /\ hist[1].t /= hist[2].t
    /\ K \notin DOMAIN hist[1].before
    /\ K \notin DOMAIN hist[2].before
    /\ Keyspace = [k \in {K} |-> ListValue(<<A, B>>)]


\* ------------------------------------------------------- lock ordering

HoldsMap(t) == t \in mapLock.r \/ mapLock.u = t \/ mapLock.w = t

HoldsCell(t) ==
    \E c \in 1..Len(cellLock) : t \in cellLock[c].r \/ cellLock[c].w = t

\* A thread is about to take, or holds, a cell lock.
AtCell(t) ==
    \/ HoldsCell(t)
    \/ pc[t] = "cell_lock"
    \/ pc[t] = "mget_loop" /\ idx[t] <= Len(bucket_ptr[t]) /\ CurCell(t) /= NoCell

\* C33: no thread holds the map lock, in any mode, while it acquires or
\* holds a cell lock, in any function, ltrim included.
C33_MapReleasedBeforeCell ==
    \A t \in Threads : ~(HoldsMap(t) /\ AtCell(t))

\* C33 for every function but ltrim.
C33_ExceptLtrim ==
    \A t \in Threads : (HoldsMap(t) /\ AtCell(t)) => cur[t].name = "ltrim"


\* ------------------------------------------------------------ deadlock

MaxLockCalls == 3

\* A mix of functions: ltrim, which upgrades the map guard with a cell's
\* write guard held, setnx, del, and functions that read or write a cell.
LockOps ==
    {Op("ltrim", K, <<>>, 1, 0, <<>>), Op("ltrim", K, <<>>, 0, 0, <<>>),
     Op("setnx", K, A, 0, 0, <<>>), Op("rpush", K, A, 0, 0, <<>>),
     Op("get", K, <<>>, 0, 0, <<>>), Op("incr", K, <<>>, 0, 0, <<>>),
     Op("mget", <<>>, <<>>, 0, 0, KJ), Op("del", <<>>, <<>>, 0, 0, KJ)}

InitLocks ==
    \E checks \in BOOLEAN, ks \in SUBSET {K},
       v \in {ListValue(<<A, B>>), StringValue(FormatI64(I64Max))} :
        Fresh(checks, ks, [k \in ks |-> v]) /\ lin = {}

CallLocks(t) ==
    \E op \in LockOps : calls < MaxLockCalls /\ Call(t, op)

\* The steps of a thread inside a call, and its return.
Running(t) ==
    \/ Step(t)
    \/ MgetCollect(t)
    \/ MgetNext(t)
    \/ MapWrite(t)
    \/ DelStep(t)
    \/ LtrimUpgrade(t)
    \/ LtrimRemove(t)
    \/ Leave(t)

NextLocks == \E t \in Threads : CallLocks(t) \/ Running(t)

\* Locks are granted fairly: a thread whose next step is possible again and
\* again takes it.
SpecLocks ==
    InitLocks /\ [][NextLocks]_vars /\ \A t \in Threads : SF_vars(Running(t))

InCall(t) == pc[t] \notin {"idle", "done", "panicked"}

\* C34: under fair lock scheduling every started call comes to its return,
\* and holds no lock then.
C34_EveryCallReturns ==
    \A t \in Threads :
        InCall(t) ~> (pc[t] = "done" /\ ~HoldsMap(t) /\ ~HoldsCell(t))

\* C34 without the return: no deadlock is reachable (a thread inside a call
\* can always take a step, or another thread can), and a thread outside a
\* call, returned or dead, holds no lock.
C34_NoDeadlock ==
    /\ (\E t \in Threads : InCall(t)) => \E t \in Threads : ENABLED Running(t)
    /\ \A t \in Threads : ~InCall(t) => ~HoldsMap(t) /\ ~HoldsCell(t)

\* C34 without the return: every started call comes to its end, a return
\* or a panic.
C34_EveryCallEnds ==
    \A t \in Threads : InCall(t) ~> ~InCall(t)


\* ------------------------------------------------------- stale handles

\* The thread has the handle of a cell that its key no longer names: the
\* key was removed, and perhaps created again, after the lookup.
Stale(t) ==
    /\ pc[t] \in {"cell_lock", "body", "done"}
    /\ bucket_ptr[t] /= <<>>
    /\ cur[t].key \notin DOMAIN map \/ map[cur[t].key] /= bucket_ptr[t][1]

NoEmptyList ==
    \A k \in DOMAIN map : Keyspace[k].type = "List" => Len(Keyspace[k].l) > 0

\* C36: no step of any function puts a list of length zero under a key:
\* when lpop, rpop, lrem or ltrim takes the last elements of a list, the key
\* is absent afterwards.
C36_NoEmptyList == [][NoEmptyList => NoEmptyList']_vars

\* -------------------------------------------------------- array replies

\* C37: in every Array reply a function has written, the count of the
\* header is the number of elements written after it.
C37_ArrayCount ==
    \A t \in Threads :
        (pc[t] = "done" /\ response[t].kind = "Array")
        => response[t].i = Len(response[t].elems)


\* ------------------------------------------- the assertion of make_response

\* C38: every message parse_client_message decodes is non-empty, so that
\* the assertion at the start of make_response holds and the thread does
\* not panic on it.
C38_DecodedNonEmpty ==
    (decoded /= <<>> /\ decoded.kind = "Ok")
    => /\ decoded.value /= <<>>
       /\ pc[Conn] /= "panicked"


\* --------------------------------------------------- what ltrim removes

\* The thread is in ltrim between its lookup and its removal of the key.
InLtrim(t) ==
    /\ cur[t].name = "ltrim"
    /\ pc[t] \in {"cell_lock", "body", "ltrim_upgrade", "ltrim_remove"}

\* C39: from ltrim's lookup to its removal of the key, the key names the
\* cell whose handle ltrim took: no other thread removes, creates or
\* re-creates the key in between, and the entry ltrim removes is that of the
\* list it examined.
C39_LtrimRemovesItsCell ==
    \A t \in Threads :
        InLtrim(t) => /\ cur[t].key \in DOMAIN map
                      /\ map[cur[t].key] = bucket_ptr[t][1]

\* An ltrim is about to remove K, which an earlier push created, while the
\* other thread waits for the map lock to delete K.
C39_Witness ==
    \E t \in Threads, u \in Threads :
        /\ pc[t] = "ltrim_remove"
        /\ cur[u].name = "del"
        /\ pc[u] = "map_lock"
        /\ \E n \in 1..Len(hist) : /\ hist[n].op.name \in {"lpush", "rpush"}
                                   /\ K \notin DOMAIN hist[n].before


\* ------------------------------------------------ hash_table.rs: HashTable

\* const REDIRECT_TAG: usize = 1;
REDIRECT_TAG == 1

\* HashTable::with_capacity_and_hasher makes BucketArray::with_capacity(8),
\* whatever capacity it is given.
InitialCapacity == 8

\* x & y on unsigned integers.
RECURSIVE BitAnd(_, _)
BitAnd(x, y) ==
    IF x = 0 \/ y = 0 THEN 0
    ELSE (x % 2) * (y % 2) + 2 * BitAnd(x \div 2, y \div 2)

\* Option<Value>.
None == [some |-> FALSE, v |-> <<>>]
Some(v) == [some |-> TRUE, v |-> v]

\* Shared<Bucket>: a null pointer, or a pointer to a Bucket{key, value}
\* (Bucket::new), each with its tag.
NullBucket == [null |-> TRUE, tag |-> 0, key |-> <<>>, value |-> None]
Bucket_new(key, value) == [null |-> FALSE, tag |-> 0, key |-> key, value |-> Some(value)]

\* The null pointer to a BucketArray.
NullArray == 0

\* BucketArray::with_capacity: every bucket null, no next array.
BucketArray_with_capacity(capacity) == [i \in 1..capacity |-> NullBucket]

\* What insert and get return, and no return at all.
ReturnBool(b) == [kind |-> "bool", b |-> b, v |-> <<>>]
ReturnNone == [kind |-> "None", b |-> FALSE, v |-> <<>>]
ReturnSome(v) == [kind |-> "Some", b |-> FALSE, v |-> v]

\* BucketArray::insert from the x-th bucket of the probe sequence on: the
\* buckets are visited from offset on, wrapping around. A null bucket or one
\* of an equal key is exchanged for the new bucket, and the pointer that was
\* there is returned; a spurious failure of compare_and_set_weak reloads the
\* same pointer and tries again. When every bucket holds another key the
\* result is Redirect or Full, as have_seen_redirect says.
RECURSIVE InsertProbe(_, _, _, _, _)
InsertProbe(buckets, bucket, offset, x, have_seen_redirect) ==
    LET len == Len(buckets)
        i == BitAnd(x + offset, len - 1)
        this_bucket_ptr == buckets[i + 1]
        seen == have_seen_redirect \/ this_bucket_ptr.tag = REDIRECT_TAG
    IN  IF x = len
        THEN [kind |-> IF have_seen_redirect THEN "Redirect" ELSE "Full",
              ptr |-> NullBucket, buckets |-> buckets]
        ELSE IF this_bucket_ptr.null \/ this_bucket_ptr.key = bucket.key
        THEN IF this_bucket_ptr.tag = REDIRECT_TAG
             THEN [kind |-> "Redirect", ptr |-> NullBucket, buckets |-> buckets]
             ELSE [kind |-> "Ok", ptr |-> this_bucket_ptr,
                   buckets |-> [buckets EXCEPT ![i + 1] = bucket]]
        ELSE InsertProbe(buckets, bucket, offset, x + 1, seen)

\* BucketArray::insert: have_seen_redirect starts as true.
BucketArray_insert(buckets, bucket, hash) ==
    InsertProbe(buckets, bucket, BitAnd(hash, Len(buckets) - 1), 0, TRUE)

\* BucketArray::get from the x-th bucket of the probe sequence on.
RECURSIVE GetProbe(_, _, _, _)
GetProbe(buckets, key, offset, x) ==
    LET len == Len(buckets)
        i == BitAnd(x + offset, len - 1)
        this_bucket_ptr == buckets[i + 1]
    IN  IF x = len THEN [kind |-> "NotFound", ptr |-> NullBucket]
        ELSE IF this_bucket_ptr.null THEN [kind |-> "NotFound", ptr |-> NullBucket]
        ELSE IF this_bucket_ptr.key = key
        THEN IF this_bucket_ptr.tag = REDIRECT_TAG
             THEN [kind |-> "Redirect", ptr |-> NullBucket]
             ELSE IF this_bucket_ptr.value.some
             THEN [kind |-> "Ok", ptr |-> this_bucket_ptr]
             ELSE [kind |-> "NotFound", ptr |-> NullBucket]
        ELSE GetProbe(buckets, key, offset, x + 1)

BucketArray_get(buckets, key, hash) ==
    GetProbe(buckets, key, BitAnd(hash, Len(buckets) - 1), 0)

\* The call panics: it returns nothing and the table is as it was.
Aborted(tbl) == [tbl EXCEPT !.ret = NoReturn, !.aborted = TRUE]

\* HashTable::insert. Ok: the return says whether a bucket was there and held
\* a value. Redirect: the next array is loaded, and the assertion at the loop's
\* head panics when that pointer is null. Full: grow() is called, which
\* reaches unimplemented!() at the first bucket that is not null. The table
\* never has a second array: only grow() makes one.
HashTable_insert(tbl, key, value) ==
    LET r == BucketArray_insert(tbl.buckets, Bucket_new(key, value), tbl.hasher[key])
    IN  CASE r.kind = "Ok" ->
               [tbl EXCEPT !.buckets = r.buckets,
                           !.ret = ReturnBool(~r.ptr.null /\ r.ptr.value.some)]
          [] r.kind = "Redirect" /\ tbl.next_array = NullArray -> Aborted(tbl)
          [] r.kind = "Full" -> Aborted(tbl)

\* HashTable::get.
HashTable_get(tbl, key) ==
    LET r == BucketArray_get(tbl.buckets, key, tbl.hasher[key])
    IN  CASE r.kind = "Ok" -> [tbl EXCEPT !.ret = ReturnSome(r.ptr.value.v)]
          [] r.kind = "Redirect" /\ tbl.next_array = NullArray -> Aborted(tbl)
          [] r.kind = "NotFound" -> [tbl EXCEPT !.ret = ReturnNone]

\* HashTable::with_hasher.
HashTable_with_hasher(hasher) ==
    [hasher |-> hasher, buckets |-> BucketArray_with_capacity(InitialCapacity),
     next_array |-> NullArray, ret |-> NoReturn, aborted |-> FALSE]


\* More distinct keys than the table has buckets at first: the first
\* NFilled of them are in the table when the calls begin.
NTableKeys == 9
NFilled == 6
KeyBytes == <<"a", "b", "c", "d", "e", "f", "g", "h", "i", "j", "l", "m">>
TableKey(n) == <<KeyBytes[n]>>
TableKeys == {TableKey(n) : n \in 1..NTableKeys}
KeyNo(key) == CHOOSE n \in 1..NTableKeys : KeyBytes[n] = key[1]
TableValues == {StringValue(A), StringValue(B)}

\* The keys of the calls: one that is in the table and those that are not.
CallKeys == {TableKey(n) : n \in NFilled..NTableKeys}

\* The hasher is a function of the key's bytes, the same for the life of the
\* table; fxhash is not among the sources. These spread the keys over the
\* buckets, fold them onto every other bucket, or send them all to one.
HashBits == 4
HashStrides == {0, 1, 2}
HashShifts == {0, 5}
Hashers ==
    {[key \in TableKeys |-> (a * KeyNo(key) + b) % (2 ^ HashBits)] :
        a \in HashStrides, b \in HashShifts}

\* The table after insert(key, A) for each of the first n keys, in order.
RECURSIVE Filled(_, _)
Filled(hasher, n) ==
    IF n = 0 THEN HashTable_with_hasher(hasher)
    ELSE HashTable_insert(Filled(hasher, n - 1), TableKey(n), StringValue(A))

\* HashTable::new() and the first inserts, beside a map that holds the same.
InitTable ==
    \E checks \in BOOLEAN, hasher \in Hashers :
        /\ StartedWith(checks, {}, <<>>, [t \in Threads |-> <<>>],
                       Filled(hasher, NFilled),
                       [map |-> [key \in TableKeys |->
                                    IF KeyNo(key) <= NFilled THEN Some(StringValue(A))
                                    ELSE None],
                        expected |-> ReturnBool(FALSE)])
        /\ lin = {}

TableUnchanged ==
    UNCHANGED <<overflow_checks, map, cells, mapLock, cellLock, pc, cur, bucket_ptr,
                response, idx, num_removed, hist, calls, pre, lin, sent, inbox,
                buf, start_idx, wire, decoded, reserved, requests>>

\* table.insert(key, value), beside the same on the plain map.
TableInsert ==
    /\ ~table.aborted
    /\ \E key \in CallKeys, value \in TableValues :
          /\ table' = HashTable_insert(table, key, value)
          /\ plain' = [map |-> [plain.map EXCEPT ![key] = Some(value)],
                       expected |-> ReturnBool(plain.map[key].some)]
    /\ TableUnchanged

\* table.get(key), beside the same on the plain map.
TableGet ==
    /\ ~table.aborted
    /\ \E key \in CallKeys :
          /\ table' = HashTable_get(table, key)
          /\ plain' = [plain EXCEPT !.expected =
                          IF plain.map[key].some THEN ReturnSome(plain.map[key].v)
                          ELSE ReturnNone]
    /\ TableUnchanged

NextTable == TableInsert \/ TableGet
SpecTable == InitTable /\ [][NextTable]_vars

\* C40: the HashTable behaves as a plain map for every sequence of inserts
\* and gets, over more distinct keys than it has buckets at first too: no
\* call aborts, insert returns whether the key held a value, and get returns
\* the value of the key's last insert, or None.
C40_PlainMap == ~table.aborted /\ table.ret = plain.expected

\* The same while fewer distinct keys have been inserted than the table has
\* buckets, and for a key that is in the table already.
C40_WithinCapacity ==
    Cardinality({key \in TableKeys : plain.map[key].some}) <= InitialCapacity
        => C40_PlainMap

====
